---- MODULE Spec2Model ----
(***************************************************************************)
(* Model of vulkan_profiles.cpp.                                           *)
(* Spec runs the profile-support queries step by step:                     *)
(*   vpGetInstanceProfileVariantsSupport  (instance-level query)           *)
(*   vpGetPhysicalDeviceProfileVariantsSupport (device-level query)        *)
(* ApiSpec runs the other library functions, one call per step.            *)
(* The profile table is static data; the model runs the generic query code *)
(* over the table of the source and over further tables of the same shape. *)
(***************************************************************************)
EXTENDS Integers, Sequences, FiniteSets, TLC

VARIABLES
    profiles,           \* detail::profiles, the static profile table
    pc,                 \* position of the running query
    pProfile,           \* argument: the VpProfileProperties the caller passes
    hasBuffer,          \* argument: pProperties != nullptr
    capacity,           \* argument: *pPropertyCount on entry
    env,                \* what the loader / the physical device answers
    api_version,        \* local of the instance query
    supported,          \* local `supported`
    supported_profile,  \* local `supported_profile` of the device query
    block,              \* local `block` (VpBlockProperties being filled)
    supported_blocks,   \* local vector
    unsupported_blocks, \* local vector
    gathered_profiles,  \* profiles to evaluate, in evaluation order
    profile_index,      \* index into gathered_profiles (1-based)
    result,             \* local `result`
    pSupported,         \* output *pSupported
    pPropertyCount,     \* output *pPropertyCount
    pProperties,        \* entries written through pProperties
    ret,                \* value returned to the caller
    calls,              \* foreign entry points invoked so far, in order
    apiCall,            \* the other library function called last ("none" before any)
    params,             \* the arguments it was called with
    returned            \* what it returned and wrote through its pointers

queryVars == <<pc, pProfile, hasBuffer, capacity, env, api_version,
               supported, supported_profile, block, supported_blocks,
               unsupported_blocks, gathered_profiles, profile_index, result,
               pSupported, pPropertyCount, pProperties, ret, calls>>

apiVars == <<apiCall, params, returned>>

vars == <<profiles, queryVars, apiVars>>

----------------------------------------------------------------------------
(* Bounds of the model *)

MaxCapacity == 2
MaxSpecVersion == 2

----------------------------------------------------------------------------
(* Vulkan version encoding *)

VK_MAKE_API_VERSION(major, minor, patch) == major * 4194304 + minor * 4096 + patch
VK_API_VERSION_MAJOR(v) == (v \div 4194304) % 128
VK_API_VERSION_MINOR(v) == (v \div 4096) % 1024
VK_API_VERSION_1_0 == VK_MAKE_API_VERSION(1, 0, 0)
VK_API_VERSION_1_1 == VK_MAKE_API_VERSION(1, 1, 0)
VK_API_VERSION_1_2 == VK_MAKE_API_VERSION(1, 2, 0)

\* Mutant: the packed version numbers are compared as plain integers.
vpCheckVersion_Raw(actual, expected) == actual >= expected

vpCheckVersion(actual, expected) ==
    LET actualMajor == VK_API_VERSION_MAJOR(actual)
        actualMinor == VK_API_VERSION_MINOR(actual)
        expectedMajor == VK_API_VERSION_MAJOR(expected)
        expectedMinor == VK_API_VERSION_MINOR(expected)
    IN  actualMajor > expectedMajor
        \/ (actualMajor = expectedMajor /\ actualMinor >= expectedMinor)

----------------------------------------------------------------------------
(* Bit masks *)

RECURSIVE BitAnd(_, _)
BitAnd(a, b) ==
    IF a = 0 \/ b = 0 THEN 0
    ELSE (IF a % 2 = 1 /\ b % 2 = 1 THEN 1 ELSE 0) + 2 * BitAnd(a \div 2, b \div 2)

vpCheckFlags(actual, expected) == BitAnd(actual, expected) = expected

----------------------------------------------------------------------------
(* Capability structures and the comparators of the generated descriptors *)

VK_SUBGROUP_FEATURE_ARITHMETIC_BIT == 4
VK_SUBGROUP_FEATURE_BALLOT_BIT == 8
VK_SHADER_STAGE_COMPUTE_BIT == 32

IsPow2OrZero(n) == BitAnd(n, n - 1) = 0

\* What the capability-query entry point writes into one struct of a chain.
QueryStruct(dev, sType) ==
    CASE sType = "PHYSICAL_DEVICE_TIMELINE_SEMAPHORE_FEATURES" ->
            [sType |-> sType, timelineSemaphore |-> dev.timelineSemaphore]
      [] sType = "PHYSICAL_DEVICE_PROPERTIES_2_KHR" ->
            [sType |-> sType, apiVersion |-> dev.apiVersion,
             maxStorageBufferRange |-> dev.maxStorageBufferRange]
      [] sType = "PHYSICAL_DEVICE_MAINTENANCE_3_PROPERTIES" ->
            [sType |-> sType, maxMemoryAllocationSize |-> dev.maxMemoryAllocationSize]
      [] sType = "PHYSICAL_DEVICE_TIMELINE_SEMAPHORE_PROPERTIES" ->
            [sType |-> sType,
             maxTimelineSemaphoreValueDifference |-> dev.maxTimelineSemaphoreValueDifference]
      [] sType = "PHYSICAL_DEVICE_SUBGROUP_PROPERTIES" ->
            [sType |-> sType, subgroupSize |-> dev.subgroupSize,
             supportedOperations |-> dev.supportedOperations,
             supportedStages |-> dev.supportedStages]
      [] sType = "PHYSICAL_DEVICE_PUSH_DESCRIPTOR_PROPERTIES_KHR" ->
            [sType |-> sType, maxPushDescriptors |-> dev.maxPushDescriptors]
      [] OTHER -> [sType |-> sType]

\* The struct chain a chainer links behind the head struct p.
FeatureChain(chainer) ==
    <<"PHYSICAL_DEVICE_FEATURES_2_KHR">> \o
    (IF chainer = "baseline"
        THEN <<"PHYSICAL_DEVICE_TIMELINE_SEMAPHORE_FEATURES">>
        ELSE <<>>)

PropertyChain(chainer) ==
    <<"PHYSICAL_DEVICE_PROPERTIES_2_KHR">> \o
    (IF chainer = "baseline"
        THEN <<"PHYSICAL_DEVICE_PUSH_DESCRIPTOR_PROPERTIES_KHR",
               "PHYSICAL_DEVICE_SUBGROUP_PROPERTIES",
               "PHYSICAL_DEVICE_TIMELINE_SEMAPHORE_PROPERTIES",
               "PHYSICAL_DEVICE_MAINTENANCE_3_PROPERTIES">>
        ELSE <<>>)

\* featureDesc.pfnComparator of namespace `desc`
FeatureComparator(desc, s) ==
    IF desc = "baseline" /\ s.sType = "PHYSICAL_DEVICE_TIMELINE_SEMAPHORE_FEATURES"
        THEN s.timelineSemaphore = TRUE
        ELSE TRUE

\* Mutant: the subgroup operations and stages are not compared.
PropertyComparator_NoFlags(desc, s) ==
    IF desc # "baseline" THEN TRUE
    ELSE CASE s.sType = "PHYSICAL_DEVICE_PROPERTIES_2_KHR" ->
                s.maxStorageBufferRange >= 268435456
           [] s.sType = "PHYSICAL_DEVICE_MAINTENANCE_3_PROPERTIES" ->
                s.maxMemoryAllocationSize >= 268435456
           [] s.sType = "PHYSICAL_DEVICE_TIMELINE_SEMAPHORE_PROPERTIES" ->
                s.maxTimelineSemaphoreValueDifference >= 16
           [] s.sType = "PHYSICAL_DEVICE_SUBGROUP_PROPERTIES" ->
                s.subgroupSize >= 4 /\ IsPow2OrZero(s.subgroupSize)
           [] s.sType = "PHYSICAL_DEVICE_PUSH_DESCRIPTOR_PROPERTIES_KHR" ->
                s.maxPushDescriptors >= 2
           [] OTHER -> TRUE

\* propertyDesc.pfnComparator of namespace `desc`
PropertyComparator(desc, s) ==
    IF desc # "baseline" THEN TRUE
    ELSE CASE s.sType = "PHYSICAL_DEVICE_PROPERTIES_2_KHR" ->
                s.maxStorageBufferRange >= 268435456
           [] s.sType = "PHYSICAL_DEVICE_MAINTENANCE_3_PROPERTIES" ->
                s.maxMemoryAllocationSize >= 268435456
           [] s.sType = "PHYSICAL_DEVICE_TIMELINE_SEMAPHORE_PROPERTIES" ->
                s.maxTimelineSemaphoreValueDifference >= 16
           [] s.sType = "PHYSICAL_DEVICE_SUBGROUP_PROPERTIES" ->
                /\ s.subgroupSize >= 4
                /\ IsPow2OrZero(s.subgroupSize)
                /\ vpCheckFlags(s.supportedOperations,
                       VK_SUBGROUP_FEATURE_BALLOT_BIT + VK_SUBGROUP_FEATURE_ARITHMETIC_BIT)
                /\ vpCheckFlags(s.supportedStages, VK_SHADER_STAGE_COMPUTE_BIT)
           [] s.sType = "PHYSICAL_DEVICE_PUSH_DESCRIPTOR_PROPERTIES_KHR" ->
                s.maxPushDescriptors >= 2
           [] OTHER -> TRUE

\* pFormats[i].pfnComparator: the required format-feature bits are reported
FormatComparator(fmt, s) == vpCheckFlags(s.optimalTilingFeatures, fmt.optimalTilingFeatures)

----------------------------------------------------------------------------
(* Profile tables *)

VK_KHR_PUSH_DESCRIPTOR == "VK_KHR_push_descriptor"
VK_KHR_SHADER_NON_SEMANTIC_INFO == "VK_KHR_shader_non_semantic_info"
VK_EXT_DEBUG_UTILS == "VK_EXT_debug_utils"
VK_KHR_GET_PHYSICAL_DEVICE_PROPERTIES_2 == "VK_KHR_get_physical_device_properties2"
VK_KHR_SURFACE == "VK_KHR_surface"
VK_KHR_SWAPCHAIN == "VK_KHR_swapchain"

VpVariantDesc(name, iext, dext, desc, fmts) ==
    [blockName |-> name, pInstanceExtensions |-> iext, pDeviceExtensions |-> dext,
     feature |-> desc, property |-> desc, chainers |-> desc, pFormats |-> fmts]

VpProfileDesc(name, spec, minApi, req, caps) ==
    [props |-> [profileName |-> name, specVersion |-> spec],
     minApiVersion |-> minApi, pRequiredProfiles |-> req,
     pRequiredCapabilities |-> caps, pFallbacks |-> <<>>]

\* VP_EXAMPLE_COMPUTE::baseline::variants
baseline_variants ==
    << VpVariantDesc("baseline", <<>>,
                     <<VK_KHR_PUSH_DESCRIPTOR, VK_KHR_SHADER_NON_SEMANTIC_INFO>>,
                     "baseline", <<>>) >>

\* VP_EXAMPLE_COMPUTE_DEBUG::debug::variants
debug_variants ==
    << VpVariantDesc("debug", <<VK_EXT_DEBUG_UTILS>>, <<>>, "debug", <<>>) >>

\* detail::profiles as the source defines it (both profiles compiled in)
TableExample ==
    << VpProfileDesc("VP_EXAMPLE_compute", 1, VK_MAKE_API_VERSION(1, 2, 198), <<>>,
                     << baseline_variants >>),
       VpProfileDesc("VP_EXAMPLE_compute_debug", 1, VK_MAKE_API_VERSION(1, 1, 0), <<>>,
                     << debug_variants >>) >>

\* A table of the same shape whose capability sets have alternative variants
TableVariants ==
    << VpProfileDesc("VP_TEST_two", 2, VK_MAKE_API_VERSION(1, 1, 0), <<>>,
          << << VpVariantDesc("first", <<VK_KHR_SURFACE>>, <<VK_KHR_SWAPCHAIN>>,
                              "baseline", <<>>),
                VpVariantDesc("second", <<>>, <<>>, "debug", <<>>) >> >>),
       VpProfileDesc("VP_TEST_sets", 1, VK_MAKE_API_VERSION(1, 0, 0), <<>>,
          << << VpVariantDesc("a", <<VK_EXT_DEBUG_UTILS>>, <<VK_KHR_PUSH_DESCRIPTOR>>,
                              "debug", <<>>),
                VpVariantDesc("b", <<>>, <<>>, "baseline", <<>>) >>,
             << VpVariantDesc("c", <<VK_EXT_DEBUG_UTILS, VK_KHR_SURFACE>>,
                              <<VK_KHR_SWAPCHAIN>>, "debug",
                              << [format |-> "R8_UNORM", optimalTilingFeatures |-> 1],
                                 [format |-> "R8G8_UNORM", optimalTilingFeatures |-> 3] >>)
             >> >>) >>

\* A table of the same shape with required profiles; VP_TEST_app lists only its
\* direct requirement, VP_TEST_full lists both profiles below it.
TableRequires ==
    << VpProfileDesc("VP_TEST_base", 1, VK_MAKE_API_VERSION(1, 1, 0), <<>>,
          << << VpVariantDesc("base", <<VK_KHR_SURFACE>>, <<VK_KHR_SWAPCHAIN>>,
                              "baseline", <<>>) >> >>),
       VpProfileDesc("VP_TEST_mid", 1, VK_MAKE_API_VERSION(1, 2, 0),
          << [profileName |-> "VP_TEST_base", specVersion |-> 1] >>,
          << << VpVariantDesc("mid", <<VK_EXT_DEBUG_UTILS>>, <<VK_KHR_PUSH_DESCRIPTOR>>,
                              "debug", <<>>) >> >>),
       VpProfileDesc("VP_TEST_app", 2, VK_MAKE_API_VERSION(1, 2, 0),
          << [profileName |-> "VP_TEST_mid", specVersion |-> 1] >>,
          << << VpVariantDesc("app", <<>>, <<>>, "debug", <<>>) >> >>),
       [ VpProfileDesc("VP_TEST_full", 1, VK_MAKE_API_VERSION(1, 2, 0),
            << [profileName |-> "VP_TEST_mid", specVersion |-> 1],
               [profileName |-> "VP_TEST_base", specVersion |-> 1] >>,
            << << VpVariantDesc("full", <<>>, <<>>, "debug", <<>>) >> >>)
         EXCEPT !.pFallbacks = << [profileName |-> "VP_TEST_app", specVersion |-> 2],
                                  [profileName |-> "VP_TEST_mid", specVersion |-> 1],
                                  [profileName |-> "VP_TEST_base", specVersion |-> 1] >> ] >>

ProfileTables == {TableExample, TableVariants, TableRequires}

\* Mutant: the loop returns the entry before the one that matches.
vpGetProfileDesc_Previous(table, profileName) ==
    LET hits == {i \in 1..Len(table) : table[i].props.profileName = profileName}
    IN  IF hits = {} THEN 0 ELSE (CHOOSE i \in hits : \A j \in hits : i <= j) - 1

\* vpGetProfileDesc: index of the first entry with that name, 0 for nullptr
vpGetProfileDesc(table, profileName) ==
    LET hits == {i \in 1..Len(table) : table[i].props.profileName = profileName}
    IN  IF hits = {} THEN 0 ELSE CHOOSE i \in hits : \A j \in hits : i <= j

\* Mutant: the required profiles are left out.
GatherProfiles_Self(table, profile) == <<profile>>

\* GatherProfiles(profile) with pBlockName == nullptr
GatherProfiles(table, profile) ==
    LET d == vpGetProfileDesc(table, profile.profileName)
    IN  (IF d # 0 THEN table[d].pRequiredProfiles ELSE <<>>) \o <<profile>>

\* CheckExtension(supportedProperties, supportedSize, requestedExtension)
CheckExtension(supportedProperties, requestedExtension) ==
    \E i \in 1..Len(supportedProperties) : supportedProperties[i] = requestedExtension

----------------------------------------------------------------------------
(* vpGetInstanceProfileSupportSingleProfile *)

\* the loop over variant_desc.pInstanceExtensions
RECURSIVE InstExtensions(_, _, _, _)
InstExtensions(variant_desc, i, supported_extensions, st) ==
    IF i > Len(variant_desc.pInstanceExtensions) THEN st
    ELSE IF ~CheckExtension(supported_extensions, variant_desc.pInstanceExtensions[i])
         THEN LET b == [st.block EXCEPT !.blockName = variant_desc.blockName]
              IN  InstExtensions(variant_desc, i + 1, supported_extensions,
                      [st EXCEPT !.supported_variant = FALSE,
                                 !.block = b,
                                 !.unsupportedBlocks = Append(@, b)])
         ELSE InstExtensions(variant_desc, i + 1, supported_extensions, st)

\* Mutant: only the first variant of a capability set is looked at.
InstVariants_FirstOnly(pVariants, variant_index, supported_extensions, st) ==
    IF variant_index > 1 \/ variant_index > Len(pVariants) THEN st
    ELSE LET variant_desc == pVariants[variant_index]
             s1 == InstExtensions(variant_desc, 1, supported_extensions,
                                  [st EXCEPT !.supported_variant = TRUE])
             b  == [s1.block EXCEPT !.blockName = variant_desc.blockName]
         IN  IF s1.supported_variant
                THEN [s1 EXCEPT !.supported_capabilities = TRUE,
                                !.block = b,
                                !.supportedBlocks = Append(@, b)]
                ELSE s1

\* the loop over capabilities_desc.pVariants (it has no break)
RECURSIVE InstVariants(_, _, _, _)
InstVariants(pVariants, variant_index, supported_extensions, st) ==
    IF variant_index > Len(pVariants) THEN st
    ELSE LET variant_desc == pVariants[variant_index]
             s1 == InstExtensions(variant_desc, 1, supported_extensions,
                                  [st EXCEPT !.supported_variant = TRUE])
             b  == [s1.block EXCEPT !.blockName = variant_desc.blockName]
             s2 == IF s1.supported_variant
                      THEN [s1 EXCEPT !.supported_capabilities = TRUE,
                                      !.block = b,
                                      !.supportedBlocks = Append(@, b)]
                      ELSE s1
         IN  InstVariants(pVariants, variant_index + 1, supported_extensions, s2)

\* Mutant: an unsupported capability set ends the loop without clearing *pSupported.
RECURSIVE InstCapabilities_Forget(_, _, _, _)
InstCapabilities_Forget(pRequiredCapabilities, capability_index, supported_extensions, st) ==
    IF capability_index > Len(pRequiredCapabilities) THEN st
    ELSE LET s1 == InstVariants(pRequiredCapabilities[capability_index], 1,
                                supported_extensions,
                                [st EXCEPT !.supported_capabilities = FALSE])
         IN  IF ~s1.supported_capabilities
                THEN s1
                ELSE InstCapabilities_Forget(pRequiredCapabilities, capability_index + 1,
                                             supported_extensions, s1)

\* the loop over pProfileDesc->pRequiredCapabilities, with its early return
RECURSIVE InstCapabilities(_, _, _, _)
InstCapabilities(pRequiredCapabilities, capability_index, supported_extensions, st) ==
    IF capability_index > Len(pRequiredCapabilities) THEN st
    ELSE LET s1 == InstVariants(pRequiredCapabilities[capability_index], 1,
                                supported_extensions,
                                [st EXCEPT !.supported_capabilities = FALSE])
         IN  IF ~s1.supported_capabilities
                THEN [s1 EXCEPT !.pSupported = FALSE]
                ELSE InstCapabilities(pRequiredCapabilities, capability_index + 1,
                                      supported_extensions, s1)

\* Mutant: a failed version check clears *pSupported but records no block.
InstVersionGate_NoRecord(desc, profile, api, st) ==
    IF \/ desc.props.specVersion < profile.specVersion
       \/ (api # 0 /\ ~vpCheckVersion(api, desc.minApiVersion))
       THEN [st EXCEPT !.pSupported = FALSE]
       ELSE st

\* the two version checks at the head of the function
InstVersionGate(desc, profile, api, st) ==
    LET s1 == IF desc.props.specVersion < profile.specVersion
                 THEN [st EXCEPT !.pSupported = FALSE,
                                 !.unsupportedBlocks = Append(@, st.block)]
                 ELSE st
    IN  IF api # 0 /\ ~vpCheckVersion(api, desc.minApiVersion)
           THEN [s1 EXCEPT !.pSupported = FALSE,
                           !.unsupportedBlocks = Append(@, s1.block)]
           ELSE s1

----------------------------------------------------------------------------
(* The per-variant evaluation of vpGetPhysicalDeviceProfileVariantsSupport *)

\* One invocation of a foreign entry point: its name, what it was asked about
\* and the VkResult it gave ("void" for the entry points that return nothing).
Call(fn, who, res) == [fn |-> fn, who |-> who, res |-> res]

\* the comparator walk over a filled chain
ChainSupported(desc, chain, dev, kind) ==
    \A i \in 1..Len(chain) :
        IF kind = "feature"
        THEN FeatureComparator(desc, QueryStruct(dev, chain[i]))
        ELSE PropertyComparator(desc, QueryStruct(dev, chain[i]))

QueryFormat(dev, format) ==
    [sType |-> "FORMAT_PROPERTIES_2_KHR", format |-> format,
     optimalTilingFeatures |-> dev.optimalTilingFeatures]

\* the loop over pFormats, which stops once the variant is unsupported
RECURSIVE DevFormats(_, _, _, _, _)
DevFormats(variant_desc, format_index, dev, who, st) ==
    IF format_index > Len(variant_desc.pFormats) \/ ~st.supported_variant THEN st
    ELSE LET fmt == variant_desc.pFormats[format_index]
             ok  == FormatComparator(fmt, QueryFormat(dev, fmt.format))
         IN  DevFormats(variant_desc, format_index + 1, dev, who,
                 [st EXCEPT !.supported_variant = @ /\ ok,
                            !.calls = Append(@, Call("vkGetPhysicalDeviceFormatProperties2", who, "void"))])

\* Mutant: the result of the device-extension loop is dropped.
DevVariant_NoExtensions(variant_desc, supported_device_extensions, dev, who, log) ==
    LET feat == ChainSupported(variant_desc.feature,
                               FeatureChain(variant_desc.chainers), dev, "feature")
        prop == ChainSupported(variant_desc.property,
                               PropertyChain(variant_desc.chainers), dev, "property")
    IN  DevFormats(variant_desc, 1, dev, who,
            [supported_variant |-> feat /\ prop,
             calls |-> log \o << Call("vkGetPhysicalDeviceFeatures2", who, "void"),
                                 Call("vkGetPhysicalDeviceProperties2", who, "void") >>])

\* one iteration of the variant loop, up to the recording of the block
DevVariant(variant_desc, supported_device_extensions, dev, who, log) ==
    LET ext  == \A i \in 1..Len(variant_desc.pDeviceExtensions) :
                    CheckExtension(supported_device_extensions,
                                   variant_desc.pDeviceExtensions[i])
        feat == ChainSupported(variant_desc.feature,
                               FeatureChain(variant_desc.chainers), dev, "feature")
        prop == ChainSupported(variant_desc.property,
                               PropertyChain(variant_desc.chainers), dev, "property")
    IN  DevFormats(variant_desc, 1, dev, who,
            [supported_variant |-> ext /\ feat /\ prop,
             calls |-> log \o << Call("vkGetPhysicalDeviceFeatures2", who, "void"),
                                 Call("vkGetPhysicalDeviceProperties2", who, "void") >>])

\* Mutant: the variant's block name is not copied into the block.
RECURSIVE DevVariants_StaleBlock(_, _, _, _, _)
DevVariants_StaleBlock(pVariants, variant_index, supported_device_extensions, dev, st) ==
    IF variant_index > Len(pVariants) THEN st
    ELSE LET variant_desc == pVariants[variant_index]
             r == DevVariant(variant_desc, supported_device_extensions, dev,
                             <<st.block.profiles.profileName, variant_desc.blockName>>,
                             st.calls)
         IN  IF r.supported_variant
                THEN [st EXCEPT !.calls = r.calls,
                                !.supported_blocks = Append(@, st.block),
                                !.supported_block = TRUE]
                ELSE DevVariants_StaleBlock(pVariants, variant_index + 1,
                                 supported_device_extensions, dev,
                                 [st EXCEPT !.calls = r.calls,
                                            !.unsupported_blocks = Append(@, st.block)])

\* the loop over required_capabilities->pVariants, which breaks on the first
\* supported variant
RECURSIVE DevVariants(_, _, _, _, _)
DevVariants(pVariants, variant_index, supported_device_extensions, dev, st) ==
    IF variant_index > Len(pVariants) THEN st
    ELSE LET variant_desc == pVariants[variant_index]
             b == [st.block EXCEPT !.blockName = variant_desc.blockName]
             r == DevVariant(variant_desc, supported_device_extensions, dev,
                             <<b.profiles.profileName, b.blockName>>, st.calls)
         IN  IF r.supported_variant
                THEN [st EXCEPT !.block = b, !.calls = r.calls,
                                !.supported_blocks = Append(@, b),
                                !.supported_block = TRUE]
                ELSE DevVariants(pVariants, variant_index + 1,
                                 supported_device_extensions, dev,
                                 [st EXCEPT !.block = b, !.calls = r.calls,
                                            !.unsupported_blocks = Append(@, b)])

\* the loop over profile_desc->pRequiredCapabilities
RECURSIVE DevCapabilities(_, _, _, _, _)
DevCapabilities(pRequiredCapabilities, required_capability_index, supported_device_extensions, dev, st) ==
    IF required_capability_index > Len(pRequiredCapabilities) THEN st
    ELSE LET s1 == DevVariants(pRequiredCapabilities[required_capability_index], 1,
                               supported_device_extensions, dev,
                               [st EXCEPT !.supported_block = FALSE])
         IN  DevCapabilities(pRequiredCapabilities, required_capability_index + 1,
                             supported_device_extensions, dev,
                             IF ~s1.supported_block
                                THEN [s1 EXCEPT !.supported_profile = FALSE]
                                ELSE s1)

----------------------------------------------------------------------------
(* Inputs of the queries and answers of the Vulkan implementation *)

RECURSIVE SubSeqs(_)
SubSeqs(s) ==
    IF s = <<>> THEN {<<>>}
    ELSE LET rest == SubSeqs(Tail(s))
         IN  rest \cup {<<Head(s)>> \o t : t \in rest}

InstanceExtensionLists ==
    SubSeqs(<<VK_KHR_GET_PHYSICAL_DEVICE_PROPERTIES_2, VK_EXT_DEBUG_UTILS, VK_KHR_SURFACE>>)

DeviceExtensionLists ==
    SubSeqs(<<VK_KHR_PUSH_DESCRIPTOR, VK_KHR_SHADER_NON_SEMANTIC_INFO, VK_KHR_SWAPCHAIN>>)

InstanceVersions == {VK_API_VERSION_1_0, VK_API_VERSION_1_1, VK_API_VERSION_1_2}

GoodDevice ==
    [apiVersion |-> VK_API_VERSION_1_2,
     timelineSemaphore |-> TRUE,
     maxStorageBufferRange |-> 268435456,
     maxMemoryAllocationSize |-> 268435456,
     maxTimelineSemaphoreValueDifference |-> 16,
     subgroupSize |-> 4,
     supportedOperations |-> 12,
     supportedStages |-> 32,
     maxPushDescriptors |-> 2,
     optimalTilingFeatures |-> 3]

PhysicalDevices ==
    { [GoodDevice EXCEPT !.apiVersion = v] : v \in {VK_API_VERSION_1_0, VK_API_VERSION_1_1} }
    \cup { GoodDevice,
           [GoodDevice EXCEPT !.timelineSemaphore = FALSE],
           [GoodDevice EXCEPT !.maxStorageBufferRange = 268435455],
           [GoodDevice EXCEPT !.subgroupSize = 6],
           [GoodDevice EXCEPT !.supportedOperations = 8],
           [GoodDevice EXCEPT !.optimalTilingFeatures = 1],
           [GoodDevice EXCEPT !.optimalTilingFeatures = 0] }

ProfileNames(table) ==
    {table[i].props.profileName : i \in 1..Len(table)} \cup {"VP_UNKNOWN_profile"}

NoProfile == [profileName |-> "", specVersion |-> 0]
NoBlock == [profiles |-> NoProfile, apiVersion |-> 0, blockName |-> ""]
NoEnv == [instanceExtensions |-> <<>>, deviceExtensions |-> <<>>, dev |-> GoodDevice]

\* VpBlockProperties block{profile, apiVersion}: blockName is zero-initialised
VpBlockProperties(profile, apiVersion) ==
    [profiles |-> profile, apiVersion |-> apiVersion, blockName |-> ""]

----------------------------------------------------------------------------
(* State machine *)

Init ==
    /\ profiles \in ProfileTables
    /\ pc = "idle"
    /\ pProfile = NoProfile
    /\ hasBuffer = FALSE
    /\ capacity = 0
    /\ env = NoEnv
    /\ api_version = 0
    /\ supported = TRUE
    /\ supported_profile = TRUE
    /\ block = NoBlock
    /\ supported_blocks = <<>>
    /\ unsupported_blocks = <<>>
    /\ gathered_profiles = <<>>
    /\ profile_index = 0
    /\ result = "VK_SUCCESS"
    /\ pSupported = "unwritten"
    /\ pPropertyCount = 0
    /\ pProperties = <<>>
    /\ ret = "none"
    /\ calls = <<>>
    /\ apiCall = "none"
    /\ params = <<>>
    /\ returned = <<>>

\* The caller's arguments; locals start as the function initialises them.
Enter(start, name, spec, buf, cap, dev) ==
    /\ pc = "idle"
    /\ pc' = start
    /\ pProfile' = [profileName |-> name, specVersion |-> spec]
    /\ hasBuffer' = buf
    /\ capacity' = cap
    /\ env' = [NoEnv EXCEPT !.dev = dev]
    /\ api_version' = VK_API_VERSION_1_0
    /\ supported' = TRUE
    /\ supported_profile' = TRUE
    /\ block' = NoBlock
    /\ supported_blocks' = <<>>
    /\ unsupported_blocks' = <<>>
    /\ gathered_profiles' = <<>>
    /\ profile_index' = 0
    /\ result' = "VK_SUCCESS"
    /\ pSupported' = "unwritten"
    /\ pPropertyCount' = cap
    /\ pProperties' = <<>>
    /\ ret' = "none"
    /\ calls' = <<>>
    /\ UNCHANGED profiles
    /\ UNCHANGED apiVars

\* pProfile, pPropertyCount and pProperties as a caller can pass them
Arguments(table) ==
    [name : ProfileNames(table), spec : 1..MaxSpecVersion, buf : {FALSE}, cap : {0}]
    \cup [name : ProfileNames(table), spec : 1..MaxSpecVersion, buf : {TRUE},
          cap : 0..MaxCapacity]

\* return r: the instance-level query ends in "inst_done", the device-level
\* query in "dev_done"
Return(r) ==
    /\ ret' = r
    /\ pc' = IF pc \in {"inst_version", "inst_ext_count", "inst_ext_fill", "inst_prelude",
                        "inst_gate", "inst_caps", "inst_write"}
                THEN "inst_done" ELSE "dev_done"

VkBool32(b) == IF b THEN "VK_TRUE" ELSE "VK_FALSE"

----------------------------------------------------------------------------
(* vpGetInstanceProfileVariantsSupport *)

CallInstance ==
    \E a \in Arguments(profiles) :
        Enter("inst_version", a.name, a.spec, a.buf, a.cap, GoodDevice)

\* vkEnumerateInstanceVersion, when the entry point exists
InstEnumerateVersion ==
    /\ pc = "inst_version"
    /\ \/ /\ pc' = "inst_ext_count"
          /\ UNCHANGED <<api_version, calls, pSupported, ret, result>>
       \/ \E v \in InstanceVersions :
            /\ calls' = Append(calls, Call("vkEnumerateInstanceVersion", <<>>, "VK_SUCCESS"))
            /\ api_version' = v
            /\ result' = "VK_SUCCESS"
            /\ pc' = "inst_ext_count"
            /\ UNCHANGED <<pSupported, ret>>
       \/ /\ calls' = Append(calls, Call("vkEnumerateInstanceVersion", <<>>,
                                         "VK_ERROR_OUT_OF_HOST_MEMORY"))
          /\ result' = "VK_ERROR_OUT_OF_HOST_MEMORY"
          /\ pSupported' = "VK_FALSE"
          /\ Return("VK_ERROR_OUT_OF_HOST_MEMORY")
          /\ UNCHANGED api_version
    /\ UNCHANGED <<profiles, pProfile, hasBuffer, capacity, env, supported,
                   supported_profile, block, supported_blocks, unsupported_blocks,
                   gathered_profiles, profile_index, pPropertyCount, pProperties>>
    /\ UNCHANGED apiVars

\* Mutant: the result of the first enumeration call is not looked at.
InstEnumerateCount_Ignore ==
    /\ pc = "inst_ext_count"
    /\ \E r \in {"VK_SUCCESS", "VK_ERROR_OUT_OF_HOST_MEMORY"} :
          /\ result' = r
          /\ calls' = Append(calls, Call("vkEnumerateInstanceExtensionProperties", <<"count">>, r))
          /\ pc' = "inst_ext_fill"
    /\ UNCHANGED <<profiles, pProfile, hasBuffer, capacity, env, api_version, supported,
                   supported_profile, block, supported_blocks, unsupported_blocks,
                   gathered_profiles, profile_index, pPropertyCount, pProperties,
                   pSupported, ret>>
    /\ UNCHANGED apiVars

\* first vkEnumerateInstanceExtensionProperties call (count only)
InstEnumerateCount ==
    /\ pc = "inst_ext_count"
    /\ \E r \in {"VK_SUCCESS", "VK_ERROR_OUT_OF_HOST_MEMORY"} :
          /\ result' = r
          /\ calls' = Append(calls, Call("vkEnumerateInstanceExtensionProperties", <<"count">>, r))
          /\ IF r # "VK_SUCCESS"
                THEN pSupported' = "VK_FALSE" /\ Return(r)
                ELSE pc' = "inst_ext_fill" /\ UNCHANGED <<pSupported, ret>>
    /\ UNCHANGED <<profiles, pProfile, hasBuffer, capacity, env, api_version, supported,
                   supported_profile, block, supported_blocks, unsupported_blocks,
                   gathered_profiles, profile_index, pPropertyCount, pProperties>>
    /\ UNCHANGED apiVars

\* second vkEnumerateInstanceExtensionProperties call (fills the list)
InstEnumerateFill ==
    /\ pc = "inst_ext_fill"
    /\ \E r \in {"VK_SUCCESS", "VK_INCOMPLETE", "VK_ERROR_OUT_OF_HOST_MEMORY"} :
          /\ result' = r
          /\ calls' = Append(calls, Call("vkEnumerateInstanceExtensionProperties", <<"fill">>, r))
          /\ IF r # "VK_SUCCESS"
                THEN /\ pSupported' = "VK_FALSE"
                     /\ Return(r)
                     /\ UNCHANGED env
                ELSE /\ \E list \in InstanceExtensionLists :
                            env' = [env EXCEPT !.instanceExtensions = list]
                     /\ pc' = "inst_prelude"
                     /\ UNCHANGED <<pSupported, ret>>
    /\ UNCHANGED <<profiles, pProfile, hasBuffer, capacity, api_version, supported,
                   supported_profile, block, supported_blocks, unsupported_blocks,
                   gathered_profiles, profile_index, pPropertyCount, pProperties>>
    /\ UNCHANGED apiVars

\* the VK_KHR_get_physical_device_properties2 requirement on Vulkan 1.0
foundGPDP2(supported_instance_extensions) ==
    \E ext_index \in 1..Len(supported_instance_extensions) :
        supported_instance_extensions[ext_index] = VK_KHR_GET_PHYSICAL_DEVICE_PROPERTIES_2

\* from `VkBool32 supported = VK_TRUE` to the lookup of the profile descriptor
InstPrelude ==
    /\ pc = "inst_prelude"
    /\ supported' = ~(api_version < VK_API_VERSION_1_1 /\ ~foundGPDP2(env.instanceExtensions))
    /\ LET d == vpGetProfileDesc(profiles, pProfile.profileName)
       IN  IF d = 0
              THEN /\ Return("VK_ERROR_UNKNOWN")
                   /\ UNCHANGED <<gathered_profiles, profile_index>>
              ELSE /\ gathered_profiles' = <<pProfile>> \o profiles[d].pRequiredProfiles
                   /\ profile_index' = 1
                   /\ pc' = "inst_gate"
                   /\ UNCHANGED ret
    /\ UNCHANGED <<profiles, pProfile, hasBuffer, capacity, env, api_version,
                   supported_profile, block, supported_blocks, unsupported_blocks,
                   result, pSupported, pPropertyCount, pProperties, calls>>
    /\ UNCHANGED apiVars

\* api_version argument of vpGetInstanceProfileSupportSingleProfile: the instance
\* version for the requested profile, 0 for its required profiles
SingleProfileApiVersion == IF profile_index = 1 THEN api_version ELSE 0

\* vpGetInstanceProfileSupportSingleProfile up to the capability loop
InstGate ==
    /\ pc = "inst_gate"
    /\ LET profile == gathered_profiles[profile_index]
           d == vpGetProfileDesc(profiles, profile.profileName)
       IN  IF d = 0
              THEN /\ supported' = FALSE
                   /\ result' = "VK_ERROR_UNKNOWN"
                   /\ pSupported' = "VK_FALSE"
                   /\ Return("VK_ERROR_UNKNOWN")
                   /\ UNCHANGED <<block, unsupported_blocks>>
              ELSE LET b  == VpBlockProperties(profile, SingleProfileApiVersion)
                       st == InstVersionGate(profiles[d], profile, SingleProfileApiVersion,
                                 [pSupported |-> supported, block |-> b,
                                  unsupportedBlocks |-> unsupported_blocks])
                   IN  /\ supported' = st.pSupported
                       /\ block' = b
                       /\ unsupported_blocks' = st.unsupportedBlocks
                       /\ pc' = "inst_caps"
                       /\ UNCHANGED <<result, pSupported, ret>>
    /\ UNCHANGED <<profiles, pProfile, hasBuffer, capacity, env, api_version,
                   supported_profile, supported_blocks, gathered_profiles,
                   profile_index, pPropertyCount, pProperties, calls>>
    /\ UNCHANGED apiVars

\* the capability loop of vpGetInstanceProfileSupportSingleProfile and the
\* caller's step to the next required profile
InstCaps ==
    /\ pc = "inst_caps"
    /\ LET d  == vpGetProfileDesc(profiles, gathered_profiles[profile_index].profileName)
           st == InstCapabilities(profiles[d].pRequiredCapabilities, 1,
                     env.instanceExtensions,
                     [pSupported |-> supported, block |-> block,
                      supported_variant |-> TRUE, supported_capabilities |-> FALSE,
                      supportedBlocks |-> supported_blocks,
                      unsupportedBlocks |-> unsupported_blocks])
       IN  /\ supported' = st.pSupported
           /\ block' = st.block
           /\ supported_blocks' = st.supportedBlocks
           /\ unsupported_blocks' = st.unsupportedBlocks
    /\ IF profile_index < Len(gathered_profiles)
          THEN profile_index' = profile_index + 1 /\ pc' = "inst_gate"
          ELSE profile_index' = profile_index /\ pc' = "inst_write"
    /\ UNCHANGED <<profiles, pProfile, hasBuffer, capacity, env, api_version,
                   supported_profile, gathered_profiles, result, pSupported,
                   pPropertyCount, pProperties, ret, calls>>
    /\ UNCHANGED apiVars

\* the copy of the block list into the caller's buffer; the copy loop runs to
\* blocks.size(), so entries past the declared capacity are written out of
\* bounds: the call either returns or faults
WriteBlocks(blocks, done) ==
    IF ~hasBuffer
       THEN /\ pPropertyCount' = Len(blocks)
            /\ pProperties' = <<>>
            /\ result' = "VK_SUCCESS"
            /\ pc' = done
       ELSE /\ pProperties' = blocks
            /\ IF pPropertyCount < Len(blocks)
                  THEN /\ result' = "VK_INCOMPLETE"
                       /\ pPropertyCount' = pPropertyCount
                       /\ pc' \in {done, "fault"}
                  ELSE /\ result' = "VK_SUCCESS"
                       /\ pPropertyCount' = Len(blocks)
                       /\ pc' = done

InstWrite ==
    /\ pc = "inst_write"
    /\ WriteBlocks(IF supported THEN supported_blocks ELSE unsupported_blocks, "inst_done")
    /\ pSupported' = IF pc' = "fault" THEN pSupported ELSE VkBool32(supported)
    /\ ret' = IF pc' = "fault" THEN "none" ELSE result'
    /\ UNCHANGED <<profiles, pProfile, hasBuffer, capacity, env, api_version, supported,
                   supported_profile, block, supported_blocks, unsupported_blocks,
                   gathered_profiles, profile_index, calls>>
    /\ UNCHANGED apiVars

----------------------------------------------------------------------------
(* vpGetPhysicalDeviceProfileVariantsSupport *)

CallDevice ==
    \E a \in Arguments(profiles), dev \in PhysicalDevices :
        Enter("dev_ext_count", a.name, a.spec, a.buf, a.cap, dev)

\* first vkEnumerateDeviceExtensionProperties call (count only)
DevEnumerateCount ==
    /\ pc = "dev_ext_count"
    /\ \E r \in {"VK_SUCCESS", "VK_ERROR_OUT_OF_HOST_MEMORY"} :
          /\ result' = r
          /\ calls' = Append(calls, Call("vkEnumerateDeviceExtensionProperties", <<"count">>, r))
          /\ IF r # "VK_SUCCESS"
                THEN Return(r)
                ELSE pc' = "dev_ext_fill" /\ UNCHANGED ret
    /\ UNCHANGED <<profiles, pProfile, hasBuffer, capacity, env, api_version, supported,
                   supported_profile, block, supported_blocks, unsupported_blocks,
                   gathered_profiles, profile_index, pSupported, pPropertyCount,
                   pProperties>>
    /\ UNCHANGED apiVars

\* second vkEnumerateDeviceExtensionProperties call (fills the list)
DevEnumerateFill ==
    /\ pc = "dev_ext_fill"
    /\ \E r \in {"VK_SUCCESS", "VK_INCOMPLETE", "VK_ERROR_OUT_OF_HOST_MEMORY"} :
          /\ result' = r
          /\ calls' = Append(calls, Call("vkEnumerateDeviceExtensionProperties", <<"fill">>, r))
          /\ IF r # "VK_SUCCESS"
                THEN Return(r) /\ UNCHANGED env
                ELSE /\ \E list \in DeviceExtensionLists :
                            env' = [env EXCEPT !.deviceExtensions = list]
                     /\ pc' = "dev_prelude"
                     /\ UNCHANGED ret
    /\ UNCHANGED <<profiles, pProfile, hasBuffer, capacity, api_version, supported,
                   supported_profile, block, supported_blocks, unsupported_blocks,
                   gathered_profiles, profile_index, pSupported, pPropertyCount,
                   pProperties>>
    /\ UNCHANGED apiVars

\* Where the four GPDP2 entry points come from: the capabilities object, the
\* core names, the KHR names, or nowhere.
EntryPointSources == {"capabilities", "core", "KHR", "none"}

\* the profile lookup, the loading of the GPDP2 entry points and GatherProfiles
DevPrelude ==
    /\ pc = "dev_prelude"
    /\ \E gpdp2 \in EntryPointSources :
         IF vpGetProfileDesc(profiles, pProfile.profileName) = 0
            THEN /\ Return("VK_ERROR_UNKNOWN")
                 /\ UNCHANGED <<gathered_profiles, profile_index>>
            ELSE IF gpdp2 = "none"
                    THEN /\ Return("VK_ERROR_EXTENSION_NOT_PRESENT")
                         /\ UNCHANGED <<gathered_profiles, profile_index>>
                    ELSE /\ gathered_profiles' = GatherProfiles(profiles, pProfile)
                         /\ profile_index' = 1
                         /\ pc' = "dev_gate"
                         /\ UNCHANGED ret
    /\ supported' = TRUE
    /\ UNCHANGED <<profiles, pProfile, hasBuffer, capacity, env, api_version,
                   supported_profile, block, supported_blocks, unsupported_blocks,
                   result, pSupported, pPropertyCount, pProperties, calls>>
    /\ UNCHANGED apiVars

\* the two version checks of one gathered profile
DevVersionGate(desc, profile, dev) ==
    /\ ~(desc.props.specVersion < profile.specVersion)
    /\ vpCheckVersion(QueryStruct(dev, "PHYSICAL_DEVICE_PROPERTIES_2_KHR").apiVersion,
                      desc.minApiVersion)

\* head of the loop over gathered_profiles, up to the capability loop
DevGate ==
    /\ pc = "dev_gate"
    /\ LET profile == gathered_profiles[profile_index]
           d == vpGetProfileDesc(profiles, profile.profileName)
       IN  IF d = 0
              THEN /\ Return("VK_ERROR_UNKNOWN")
                   /\ UNCHANGED <<supported_profile, block, calls>>
              ELSE /\ supported_profile' = DevVersionGate(profiles[d], profile, env.dev)
                   /\ block' = VpBlockProperties(profile, profiles[d].minApiVersion)
                   /\ calls' = Append(calls, Call("vkGetPhysicalDeviceProperties2",
                                                  <<profile.profileName>>, "void"))
                   /\ pc' = "dev_caps"
                   /\ UNCHANGED ret
    /\ UNCHANGED <<profiles, pProfile, hasBuffer, capacity, env, api_version, supported,
                   supported_blocks, unsupported_blocks, gathered_profiles,
                   profile_index, result, pSupported, pPropertyCount, pProperties>>
    /\ UNCHANGED apiVars

\* the capability loop of one gathered profile and the step to the next profile
DevCaps ==
    /\ pc = "dev_caps"
    /\ LET d  == vpGetProfileDesc(profiles, gathered_profiles[profile_index].profileName)
           st == DevCapabilities(profiles[d].pRequiredCapabilities, 1,
                     env.deviceExtensions, env.dev,
                     [supported_profile |-> supported_profile, supported_block |-> FALSE,
                      block |-> block, supported_blocks |-> supported_blocks,
                      unsupported_blocks |-> unsupported_blocks, calls |-> calls])
       IN  /\ supported_profile' = st.supported_profile
           /\ supported' = (supported /\ st.supported_profile)
           /\ block' = st.block
           /\ supported_blocks' = st.supported_blocks
           /\ unsupported_blocks' = st.unsupported_blocks
           /\ calls' = st.calls
    /\ IF profile_index < Len(gathered_profiles)
          THEN profile_index' = profile_index + 1 /\ pc' = "dev_gate"
          ELSE profile_index' = profile_index /\ pc' = "dev_write"
    /\ UNCHANGED <<profiles, pProfile, hasBuffer, capacity, env, api_version,
                   gathered_profiles, result, pSupported, pPropertyCount, pProperties,
                   ret>>
    /\ UNCHANGED apiVars

\* the copy of the block list; this function returns VK_SUCCESS, not `result`
DevWrite ==
    /\ pc = "dev_write"
    /\ WriteBlocks(IF supported THEN supported_blocks ELSE unsupported_blocks, "dev_done")
    /\ pSupported' = IF pc' = "fault" THEN pSupported ELSE VkBool32(supported)
    /\ ret' = IF pc' = "fault" THEN "none" ELSE "VK_SUCCESS"
    /\ UNCHANGED <<profiles, pProfile, hasBuffer, capacity, env, api_version, supported,
                   supported_profile, block, supported_blocks, unsupported_blocks,
                   gathered_profiles, profile_index, calls>>
    /\ UNCHANGED apiVars

----------------------------------------------------------------------------

\* The caller takes the result and its buffer; the next query starts afresh.
Finish ==
    /\ pc \in {"inst_done", "dev_done"}
    /\ pc' = "idle"
    /\ pProfile' = NoProfile
    /\ hasBuffer' = FALSE
    /\ capacity' = 0
    /\ env' = NoEnv
    /\ api_version' = 0
    /\ supported' = TRUE
    /\ supported_profile' = TRUE
    /\ block' = NoBlock
    /\ supported_blocks' = <<>>
    /\ unsupported_blocks' = <<>>
    /\ gathered_profiles' = <<>>
    /\ profile_index' = 0
    /\ result' = "VK_SUCCESS"
    /\ pSupported' = "unwritten"
    /\ pPropertyCount' = 0
    /\ pProperties' = <<>>
    /\ ret' = "none"
    /\ calls' = <<>>
    /\ UNCHANGED profiles
    /\ UNCHANGED apiVars

Next ==
    \/ CallInstance
    \/ InstEnumerateVersion
    \/ InstEnumerateCount
    \/ InstEnumerateFill
    \/ InstPrelude
    \/ InstGate
    \/ InstCaps
    \/ InstWrite
    \/ CallDevice
    \/ DevEnumerateCount
    \/ DevEnumerateFill
    \/ DevPrelude
    \/ DevGate
    \/ DevCaps
    \/ DevWrite
    \/ Finish

Spec == Init /\ [][Next]_vars

----------------------------------------------------------------------------
(* Vocabulary of the properties, stated over the table and the answers of  *)
(* the implementation rather than over the loops of the queries            *)

Range(seq) == {seq[i] : i \in DOMAIN seq}

Known(name) == \E i \in DOMAIN profiles : profiles[i].props.profileName = name

Desc(name) == profiles[CHOOSE i \in DOMAIN profiles : profiles[i].props.profileName = name]

\* version a is at least version b, patch numbers left out
VersionMeets(a, b) == (a \div 4096) >= (b \div 4096)

\* the requested profile and the profiles its table entry lists as required
DirectProfiles == {pProfile} \cup Range(Desc(pProfile.profileName).pRequiredProfiles)

\* every profile reachable through the required-profile relation (tables are
\* at most three levels deep)
TransitiveProfiles ==
    LET step(S) == S \cup UNION {Range(Desc(q.profileName).pRequiredProfiles) : q \in S}
    IN  step(step(step({pProfile})))

InstanceVariantOk(v) ==
    \A e \in Range(v.pInstanceExtensions) : e \in Range(env.instanceExtensions)

DeviceExtensionsOk(v) ==
    \A e \in Range(v.pDeviceExtensions) : e \in Range(env.deviceExtensions)

DeviceVariantOk(v) ==
    /\ DeviceExtensionsOk(v)
    /\ \A t \in Range(FeatureChain(v.chainers)) :
            FeatureComparator(v.feature, QueryStruct(env.dev, t))
    /\ \A t \in Range(PropertyChain(v.chainers)) :
            PropertyComparator(v.property, QueryStruct(env.dev, t))
    /\ \A f \in Range(v.pFormats) : FormatComparator(f, QueryFormat(env.dev, f.format))

InstanceSetsOk(p) ==
    \A c \in Range(Desc(p.profileName).pRequiredCapabilities) :
        \E v \in Range(c) : InstanceVariantOk(v)

DeviceSetsOk(p) ==
    \A c \in Range(Desc(p.profileName).pRequiredCapabilities) :
        \E v \in Range(c) : DeviceVariantOk(v)

\* the version gate as the code applies it
SpecVersionOk(p) == p.specVersion <= Desc(p.profileName).props.specVersion
ApiVersionOk(p, api) == VersionMeets(api, Desc(p.profileName).minApiVersion)

\* the query ran to the point where it reports its block list
InstReported == pc = "inst_done" /\ profile_index >= 1
DevReported == pc = "dev_done" /\ profile_index >= 1

ReportedList == IF pSupported = "VK_TRUE" THEN supported_blocks ELSE unsupported_blocks

----------------------------------------------------------------------------
(* C1: the device-level query reports supported = true exactly when, for   *)
(* the requested profile and each profile it lists as required, the        *)
(* version gate passes and every required capability set has a variant     *)
(* whose device extensions are all enumerated and whose feature, property   *)
(* and format comparators all accept what the device reports.              *)
C1_DeviceSupportedIff ==
    DevReported =>
        ( pSupported = "VK_TRUE"
          <=> \A p \in DirectProfiles :
                  /\ SpecVersionOk(p)
                  /\ ApiVersionOk(p, env.dev.apiVersion)
                  /\ DeviceSetsOk(p) )

C1_Witness ==
    /\ DevReported
    /\ pSupported = "VK_TRUE"
    /\ pProfile.profileName \in {"VP_TEST_sets", "VP_TEST_full"}

(* C2: with an instance API version of at least 1.1, the instance-level    *)
(* query reports supported = true exactly when the version gate of the     *)
(* requested profile passes and every required capability set of the       *)
(* requested profile and of each required profile has a variant whose      *)
(* instance extensions are all in the enumerated list.                     *)
C2_InstanceSupportedIff ==
    (InstReported /\ api_version >= VK_API_VERSION_1_1) =>
        ( pSupported = "VK_TRUE"
          <=> /\ SpecVersionOk(pProfile)
              /\ ApiVersionOk(pProfile, api_version)
              /\ \A p \in DirectProfiles : InstanceSetsOk(p) )

C2_Witness ==
    /\ InstReported
    /\ api_version >= VK_API_VERSION_1_1
    /\ pSupported = "VK_TRUE"
    /\ pProfile.profileName = "VP_TEST_full"

(* C3: with a non-null block buffer whose declared capacity is smaller     *)
(* than the number of blocks to report, both queries return VK_INCOMPLETE  *)
(* and write at most `capacity` entries into the buffer.                   *)
C3_PartialResult ==
    ( /\ pc \in {"inst_done", "dev_done", "fault"}
      /\ profile_index >= 1
      /\ hasBuffer
      /\ capacity < Len(IF supported THEN supported_blocks ELSE unsupported_blocks) )
    => ( ret = "VK_INCOMPLETE" /\ Len(pProperties) <= capacity )

\* a block of variant v of profile p is in the list
Recorded(list, p, v) ==
    \E i \in DOMAIN list : /\ list[i].profiles.profileName = p.profileName
                           /\ list[i].blockName = v.blockName

Capabilities(p) == Desc(p.profileName).pRequiredCapabilities

TwoVariantProfile ==
    /\ Desc(pProfile.profileName).pRequiredProfiles = <<>>
    /\ Len(Capabilities(pProfile)) = 1
    /\ Len(Capabilities(pProfile)[1]) = 2
    /\ SpecVersionOk(pProfile)

InstanceTwoVariantCase ==
    /\ InstReported
    /\ TwoVariantProfile
    /\ ApiVersionOk(pProfile, api_version)
    /\ (api_version >= VK_API_VERSION_1_1
        \/ VK_KHR_GET_PHYSICAL_DEVICE_PROPERTIES_2 \in Range(env.instanceExtensions))
    /\ ~InstanceVariantOk(Capabilities(pProfile)[1][1])
    /\ InstanceVariantOk(Capabilities(pProfile)[1][2])

DeviceTwoVariantCase ==
    /\ DevReported
    /\ TwoVariantProfile
    /\ ApiVersionOk(pProfile, env.dev.apiVersion)
    /\ ~DeviceExtensionsOk(Capabilities(pProfile)[1][1])
    /\ DeviceVariantOk(Capabilities(pProfile)[1][2])

(* C5: for a profile whose capability set has two variants, the first       *)
(* missing a required extension and the second meeting all its              *)
(* requirements, either query reports the profile supported, the supported  *)
(* list holds exactly the second variant's block, and the unsupported list  *)
(* is non-empty and holds nothing but the first variant's block.            *)
C5_SecondVariantWins ==
    (InstanceTwoVariantCase \/ DeviceTwoVariantCase) =>
        LET first  == Capabilities(pProfile)[1][1]
            second == Capabilities(pProfile)[1][2]
        IN  /\ pSupported = "VK_TRUE"
            /\ Len(supported_blocks) = 1
            /\ supported_blocks[1].profiles = pProfile
            /\ supported_blocks[1].blockName = second.blockName
            /\ unsupported_blocks # <<>>
            /\ \A i \in DOMAIN unsupported_blocks :
                    /\ unsupported_blocks[i].profiles = pProfile
                    /\ unsupported_blocks[i].blockName = first.blockName

C5_Witness == InstanceTwoVariantCase /\ pSupported = "VK_TRUE" /\ Len(unsupported_blocks) = 1

\* the scenario of C6: minimum API version 1.1, reported version 1.0, and a
\* variant of the profile asking for an instance extension that is not
\* enumerated
InstanceGateCase ==
    /\ InstReported
    /\ api_version = VK_API_VERSION_1_0
    /\ VK_API_VERSION_MAJOR(Desc(pProfile.profileName).minApiVersion) = 1
    /\ VK_API_VERSION_MINOR(Desc(pProfile.profileName).minApiVersion) = 1
    /\ \A s \in DOMAIN Capabilities(pProfile) :
            \E v \in Range(Capabilities(pProfile)[s]) : ~InstanceVariantOk(v)

(* C6: for a profile with minimum API version 1.1 that asks for an instance *)
(* extension, when the reported API version is 1.0 and the extension is not *)
(* enumerated, the instance query reports unsupported and the unsupported   *)
(* list holds an entry of the version gate (no block name) followed by an   *)
(* entry of the failed extension check (the variant's block name).          *)
C6_GateAndExtensionEntries ==
    InstanceGateCase =>
        /\ pSupported = "VK_FALSE"
        /\ \E i, j \in DOMAIN unsupported_blocks :
              /\ i < j
              /\ unsupported_blocks[i] = VpBlockProperties(pProfile, api_version)
              /\ unsupported_blocks[j].profiles = pProfile
              /\ \E s \in DOMAIN Capabilities(pProfile) :
                    \E v \in Range(Capabilities(pProfile)[s]) :
                        /\ ~InstanceVariantOk(v)
                        /\ unsupported_blocks[j].blockName = v.blockName

C6_Witness ==
    /\ InstanceGateCase
    /\ pProfile.profileName = "VP_EXAMPLE_compute_debug"
    /\ Len(unsupported_blocks) = 2

\* the profile whose version gate has just been evaluated, and the API version
\* the gate was given
GateProfile == gathered_profiles[profile_index]

GateApiVersion ==
    IF pc = "inst_caps" THEN SingleProfileApiVersion ELSE env.dev.apiVersion

\* the gate rejected: the instance query has pushed the profile's nameless
\* block, the device query has cleared supported_profile
GateRejected ==
    IF pc = "inst_caps"
       THEN \E i \in DOMAIN unsupported_blocks : unsupported_blocks[i] = block
       ELSE ~supported_profile

GateEvaluated == pc \in {"inst_caps", "dev_caps"}

(* C7 as stated: the gate rejects exactly when the profile's declared spec  *)
(* version exceeds the caller-declared spec version, or the API version is  *)
(* non-zero and does not meet the profile's minimum.                        *)
C7_GateAsStated ==
    GateEvaluated =>
        ( GateRejected
          <=> \/ Desc(GateProfile.profileName).props.specVersion > GateProfile.specVersion
              \/ /\ GateApiVersion # 0
                 /\ ~VersionMeets(GateApiVersion, Desc(GateProfile.profileName).minApiVersion) )

(* C7 amended: the gate rejects exactly when the spec version the caller    *)
(* asks for exceeds the spec version the table declares for the profile, or *)
(* the API version given to the gate is non-zero and its major.minor number *)
(* is below the major.minor number of the profile's minimum API version     *)
(* (patch numbers are not compared).                                        *)
C7_GateRejectsExactly ==
    GateEvaluated =>
        ( GateRejected
          <=> \/ GateProfile.specVersion > Desc(GateProfile.profileName).props.specVersion
              \/ /\ GateApiVersion # 0
                 /\ ~VersionMeets(GateApiVersion, Desc(GateProfile.profileName).minApiVersion) )

C7_Witness ==
    /\ pc = "inst_caps"
    /\ GateRejected
    /\ GateProfile.specVersion > Desc(GateProfile.profileName).props.specVersion
    /\ VersionMeets(GateApiVersion, Desc(GateProfile.profileName).minApiVersion)

\* every required capability set of p has a variant the query accepts
SetsOk(p) == IF pc = "inst_done" THEN InstanceSetsOk(p) ELSE DeviceSetsOk(p)

AllBlocks == Range(supported_blocks) \cup Range(unsupported_blocks)

----------------------------------------------------------------------------

\* the variants a query evaluates: the device query logs a feature query per
\* evaluated variant; the instance query walks the capability sets of a
\* profile in order and leaves the profile at the first unsupported set
Evaluated(p, s, v) ==
    IF pc = "dev_done"
       THEN \E k \in DOMAIN calls :
               /\ calls[k].fn = "vkGetPhysicalDeviceFeatures2"
               /\ calls[k].who = <<p.profileName, v.blockName>>
       ELSE \A s2 \in 1..(s - 1) :
               \E v2 \in Range(Capabilities(p)[s2]) : InstanceVariantOk(v2)

\* a record that carries its profile and the block name of one of the
\* profile's variants
VariantRecord(b) ==
    /\ b.profiles \in DirectProfiles
    /\ \E s \in DOMAIN Capabilities(b.profiles) :
          \E v \in Range(Capabilities(b.profiles)[s]) : b.blockName = v.blockName

\* a record of the instance query's version gate: the profile, no block name
GateRecord(b) ==
    /\ pc = "inst_done"
    /\ b.profiles \in DirectProfiles
    /\ b.blockName = ""
    /\ b \in Range(unsupported_blocks)
    /\ b \notin Range(supported_blocks)

EvaluatedOnce ==
    \A p \in DirectProfiles :
        \A s \in DOMAIN Capabilities(p) :
            \A v \in Range(Capabilities(p)[s]) :
                /\ Evaluated(p, s, v) =>
                      (Recorded(supported_blocks, p, v) \/ Recorded(unsupported_blocks, p, v))
                /\ ~(Recorded(supported_blocks, p, v) /\ Recorded(unsupported_blocks, p, v))

\* what the caller receives when it passes no buffer or one that is large
\* enough
ReturnedList ==
    /\ ~hasBuffer => pPropertyCount = Len(ReportedList)
    /\ (hasBuffer /\ capacity >= Len(ReportedList)) =>
          (pProperties = ReportedList /\ pPropertyCount = Len(ReportedList))

C10_FailurePropagates ==
    \A k \in DOMAIN calls :
        calls[k].res \notin {"VK_SUCCESS", "void"} =>
            /\ k = Len(calls)
            /\ pc \in {"inst_done", "dev_done"}
            /\ ret = calls[k].res

C10_Witness ==
    /\ pc = "inst_done"
    /\ Len(calls) = 3
    /\ calls[3].res = "VK_INCOMPLETE"
    /\ ret = "VK_INCOMPLETE"

----------------------------------------------------------------------------
(* The other library functions. Each runs to completion in one step: it    *)
(* takes its arguments from the caller and leaves in `returned` its return *)
(* value and what it wrote through its output pointers.                    *)

\* a null pointer argument (pBlockName, pProperties, pApplicationInfo, ...)
nullptr == "nullptr"

\* one call of a library function
ApiStep(f, a, r) ==
    /\ pc = "idle"
    /\ apiCall = "none"
    /\ apiCall' = f
    /\ params' = a
    /\ returned' = r
    /\ UNCHANGED <<profiles, queryVars>>

\* pPropertyCount / pProperties as a caller can pass them
EnumArguments ==
    [buf : {FALSE}, cap : {0}] \cup [buf : {TRUE}, cap : 0..MaxCapacity]

\* Mutant: the copy runs over the whole list, whatever the capacity.
CopyOut_All(list, buf, cap, result0) ==
    IF ~buf
       THEN [ret |-> result0, pPropertyCount |-> Len(list), pProperties |-> <<>>]
       ELSE [ret |-> IF cap < Len(list) THEN "VK_INCOMPLETE" ELSE result0,
             pPropertyCount |-> IF cap < Len(list) THEN cap ELSE Len(list),
             pProperties |-> list]

\* the tail of every enumeration function: the count, the partial-result code
\* and the copy of *pPropertyCount entries
CopyOut(list, buf, cap, result0) ==
    IF ~buf
       THEN [ret |-> result0, pPropertyCount |-> Len(list), pProperties |-> <<>>]
       ELSE LET count == IF cap < Len(list) THEN cap ELSE Len(list)
            IN  [ret |-> IF cap < Len(list) THEN "VK_INCOMPLETE" ELSE result0,
                 pPropertyCount |-> count,
                 pProperties |-> SubSeq(list, 1, count)]

\* an early `return VK_ERROR_UNKNOWN`: nothing is written
UnknownProfile(cap) ==
    [ret |-> "VK_ERROR_UNKNOWN", pPropertyCount |-> cap, pProperties |-> <<>>]

\* the numeric value of a VkStructureType enumerator, which std::sort orders by
VkStructureType(sType) ==
    CASE sType = "PHYSICAL_DEVICE_FEATURES_2_KHR" -> 1000059000
      [] sType = "PHYSICAL_DEVICE_PROPERTIES_2_KHR" -> 1000059001
      [] sType = "FORMAT_PROPERTIES_2_KHR" -> 1000059002
      [] sType = "PHYSICAL_DEVICE_PUSH_DESCRIPTOR_PROPERTIES_KHR" -> 1000080000
      [] sType = "PHYSICAL_DEVICE_SUBGROUP_PROPERTIES" -> 1000094000
      [] sType = "PHYSICAL_DEVICE_MAINTENANCE_3_PROPERTIES" -> 1000168000
      [] sType = "PHYSICAL_DEVICE_TIMELINE_SEMAPHORE_FEATURES" -> 1000207000
      [] sType = "PHYSICAL_DEVICE_TIMELINE_SEMAPHORE_PROPERTIES" -> 1000207002
      [] sType = "FORMAT_PROPERTIES_3_KHR" -> 1000360000
      [] OTHER -> 0

\* featureStructTypes / propertyStructTypes / format struct types of a variant,
\* in table order
pFeatureStructTypes(variant) ==
    IF variant.feature = "baseline"
       THEN <<"PHYSICAL_DEVICE_TIMELINE_SEMAPHORE_FEATURES">> ELSE <<>>

pPropertyStructTypes(variant) ==
    IF variant.property = "baseline"
       THEN <<"PHYSICAL_DEVICE_PROPERTIES_2_KHR",
              "PHYSICAL_DEVICE_MAINTENANCE_3_PROPERTIES",
              "PHYSICAL_DEVICE_TIMELINE_SEMAPHORE_PROPERTIES",
              "PHYSICAL_DEVICE_SUBGROUP_PROPERTIES",
              "PHYSICAL_DEVICE_PUSH_DESCRIPTOR_PROPERTIES_KHR">>
       ELSE <<>>

pFormatStructTypes(variant) ==
    IF variant.pFormats # <<>>
       THEN <<"FORMAT_PROPERTIES_2_KHR", "FORMAT_PROPERTIES_3_KHR">> ELSE <<>>

\* Mutant: every element is pushed, in the list or not.
PushUnique_All(results, data) == results \o data

\* push_back of every element that is not yet in the list
RECURSIVE PushUnique(_, _)
PushUnique(results, data) ==
    IF data = <<>> THEN results
    ELSE PushUnique(IF \E i \in DOMAIN results : results[i] = Head(data)
                       THEN results ELSE Append(results, Head(data)),
                    Tail(data))

\* std::sort of a list of structure types
RECURSIVE SortTypes(_)
SortTypes(list) ==
    IF list = <<>> THEN <<>>
    ELSE LET m == CHOOSE i \in DOMAIN list :
                     \A j \in DOMAIN list :
                         VkStructureType(list[i]) <= VkStructureType(list[j])
         IN  <<list[m]>> \o SortTypes(SubSeq(list, 1, m - 1) \o SubSeq(list, m + 1, Len(list)))

\* the variants the gathering loops visit, in order: every variant of every
\* capability set of every gathered profile, or only those with the block name
RECURSIVE VisitedVariants(_, _, _)
VisitedVariants(table, gathered, pBlockName) ==
    IF gathered = <<>> THEN <<>>
    ELSE LET desc == table[vpGetProfileDesc(table, Head(gathered).profileName)]
             flat[c \in 0..Len(desc.pRequiredCapabilities)] ==
                 IF c = 0 THEN <<>> ELSE flat[c - 1] \o desc.pRequiredCapabilities[c]
         IN  SelectSeq(flat[Len(desc.pRequiredCapabilities)],
                       LAMBDA v : pBlockName = nullptr \/ v.blockName = pBlockName)
             \o VisitedVariants(table, Tail(gathered), pBlockName)

\* the list the loops collect out of the visited variants
RECURSIVE Collect(_, _, _)
Collect(variants, kind, results) ==
    IF variants = <<>> THEN results
    ELSE LET v == Head(variants)
             data == CASE kind = "EXTENSION_INSTANCE" -> v.pInstanceExtensions
                       [] kind = "EXTENSION_DEVICE" -> v.pDeviceExtensions
                       [] kind = "STRUCTURE_FEATURE" -> pFeatureStructTypes(v)
                       [] kind = "STRUCTURE_PROPERTY" -> pPropertyStructTypes(v)
                       [] kind = "STRUCTURE_FORMAT" -> pFormatStructTypes(v)
                       [] kind = "FORMAT" -> [i \in DOMAIN v.pFormats |-> v.pFormats[i].format]
         IN  Collect(Tail(variants), kind, PushUnique(results, data))

\* some gathered profile is not in the table
GatheredUnknown(table, gathered) ==
    \E i \in DOMAIN gathered : vpGetProfileDesc(table, gathered[i].profileName) = 0

\* `result` before the copy: VK_INCOMPLETE while no variant of the block name
\* has been met
BlockResult(variants, pBlockName) ==
    IF pBlockName = nullptr \/ variants # <<>> THEN "VK_SUCCESS" ELSE "VK_INCOMPLETE"

BlockNames(table) ==
    {nullptr, "VP_UNKNOWN_block"} \cup
    UNION { UNION { {table[i].pRequiredCapabilities[c][v].blockName :
                        v \in DOMAIN table[i].pRequiredCapabilities[c]} :
                    c \in DOMAIN table[i].pRequiredCapabilities } : i \in DOMAIN table }

ProfileArguments(table) ==
    {[profileName |-> n, specVersion |-> 1] : n \in ProfileNames(table)}

vpGetProfiles ==
    /\ apiCall = "none"
    /\ \E a \in EnumArguments :
          LET props == [i \in DOMAIN profiles |-> profiles[i].props]
          IN  ApiStep("vpGetProfiles", a, CopyOut(props, a.buf, a.cap, "VK_SUCCESS"))

vpGetProfileRequiredProfiles ==
    /\ apiCall = "none"
    /\ \E a \in EnumArguments, p \in ProfileArguments(profiles) :
           LET d == vpGetProfileDesc(profiles, p.profileName)
           IN  ApiStep("vpGetProfileRequiredProfiles",
                       [pProfile |-> p, buf |-> a.buf, cap |-> a.cap],
                       IF d = 0 THEN UnknownProfile(a.cap)
                       ELSE CopyOut(profiles[d].pRequiredProfiles, a.buf, a.cap, "VK_SUCCESS"))

vpGetProfileFallbacks ==
    /\ apiCall = "none"
    /\ \E a \in EnumArguments, p \in ProfileArguments(profiles) :
           LET d == vpGetProfileDesc(profiles, p.profileName)
           IN  ApiStep("vpGetProfileFallbacks",
                       [pProfile |-> p, buf |-> a.buf, cap |-> a.cap],
                       IF d = 0 THEN UnknownProfile(a.cap)
                       ELSE CopyOut(profiles[d].pFallbacks, a.buf, a.cap, "VK_SUCCESS"))

\* detail::vpGetProfileExtensionProperties; GatherProfiles is given pBlockName
\* and leaves the required profiles out when a block is named
vpGetProfileExtensionProperties ==
    /\ apiCall = "none"
    /\ \E a \in EnumArguments, p \in ProfileArguments(profiles),
          b \in BlockNames(profiles), type \in {"EXTENSION_INSTANCE", "EXTENSION_DEVICE"} :
           LET gathered == IF b = nullptr THEN GatherProfiles(profiles, p) ELSE <<p>>
               variants == VisitedVariants(profiles, gathered, b)
           IN  ApiStep("vpGetProfileExtensionProperties",
                       [pProfile |-> p, pBlockName |-> b, type |-> type,
                        buf |-> a.buf, cap |-> a.cap],
                       IF GatheredUnknown(profiles, gathered) THEN UnknownProfile(a.cap)
                       ELSE CopyOut(Collect(variants, type, <<>>), a.buf, a.cap,
                                    BlockResult(variants, b)))

\* detail::vpGetProfileStructureTypes
vpGetProfileStructureTypes ==
    /\ apiCall = "none"
    /\ \E a \in EnumArguments, p \in ProfileArguments(profiles),
          b \in BlockNames(profiles),
          type \in {"STRUCTURE_FEATURE", "STRUCTURE_PROPERTY", "STRUCTURE_FORMAT"} :
           LET gathered == GatherProfiles(profiles, p)
               variants == VisitedVariants(profiles, gathered, b)
           IN  ApiStep("vpGetProfileStructureTypes",
                       [pProfile |-> p, pBlockName |-> b, type |-> type,
                        buf |-> a.buf, cap |-> a.cap],
                       IF GatheredUnknown(profiles, gathered) THEN UnknownProfile(a.cap)
                       ELSE CopyOut(SortTypes(Collect(variants, type, <<>>)), a.buf, a.cap,
                                    BlockResult(variants, b)))

vpGetProfileFormats ==
    /\ apiCall = "none"
    /\ \E a \in EnumArguments, p \in ProfileArguments(profiles), b \in BlockNames(profiles) :
           LET gathered == GatherProfiles(profiles, p)
               variants == VisitedVariants(profiles, gathered, b)
           IN  ApiStep("vpGetProfileFormats",
                       [pProfile |-> p, pBlockName |-> b, type |-> "FORMAT",
                        buf |-> a.buf, cap |-> a.cap],
                       IF GatheredUnknown(profiles, gathered) THEN UnknownProfile(a.cap)
                       ELSE CopyOut(Collect(variants, "FORMAT", <<>>), a.buf, a.cap,
                                    BlockResult(variants, b)))

\* a lookup in the profile table; `desc` is the index of the entry returned,
\* 0 for a null pointer
GetProfileDesc ==
    /\ apiCall = "none"
    /\ \E n \in ProfileNames(profiles) :
           ApiStep("vpGetProfileDesc", [profileName |-> n],
                   [desc |-> vpGetProfileDesc(profiles, n)])

----------------------------------------------------------------------------
(* VpCapabilities_T and vpCreateCapabilities. The object is the set of its  *)
(* entry-point members that are not null.                                   *)

VpVulkanFunctions ==
    {"GetInstanceProcAddr", "GetDeviceProcAddr", "EnumerateInstanceVersion",
     "EnumerateInstanceExtensionProperties", "EnumerateDeviceExtensionProperties",
     "GetPhysicalDeviceFeatures2", "GetPhysicalDeviceProperties2",
     "GetPhysicalDeviceFormatProperties2", "GetPhysicalDeviceQueueFamilyProperties2",
     "CreateInstance", "CreateDevice"}

\* the member `apiVersion`, which no function of the object assigns
VpCapabilities_T_apiVersion == VK_API_VERSION_1_0

\* Mutant: the two creation entry points are not looked at.
ValidateVulkanFunctions_NoCreate(this, apiVersion) ==
    LET missing == IF apiVersion >= VK_API_VERSION_1_1
                      THEN "VK_ERROR_INITIALIZATION_FAILED"
                      ELSE "VK_ERROR_EXTENSION_NOT_PRESENT"
    IN  IF "GetInstanceProcAddr" \notin this THEN "VK_ERROR_INITIALIZATION_FAILED"
        ELSE IF "GetDeviceProcAddr" \notin this THEN "VK_ERROR_INITIALIZATION_FAILED"
        ELSE IF "EnumerateInstanceVersion" \notin this /\ apiVersion >= VK_API_VERSION_1_1
             THEN "VK_ERROR_INITIALIZATION_FAILED"
        ELSE IF "EnumerateInstanceExtensionProperties" \notin this
             THEN "VK_ERROR_INITIALIZATION_FAILED"
        ELSE IF "EnumerateDeviceExtensionProperties" \notin this
             THEN "VK_ERROR_INITIALIZATION_FAILED"
        ELSE IF "GetPhysicalDeviceFeatures2" \notin this THEN missing
        ELSE IF "GetPhysicalDeviceProperties2" \notin this THEN missing
        ELSE IF "GetPhysicalDeviceFormatProperties2" \notin this THEN missing
        ELSE IF "GetPhysicalDeviceQueueFamilyProperties2" \notin this THEN missing
        ELSE "VK_SUCCESS"

ValidateVulkanFunctions(this, apiVersion) ==
    LET missing == IF apiVersion >= VK_API_VERSION_1_1
                      THEN "VK_ERROR_INITIALIZATION_FAILED"
                      ELSE "VK_ERROR_EXTENSION_NOT_PRESENT"
    IN  IF "GetInstanceProcAddr" \notin this THEN "VK_ERROR_INITIALIZATION_FAILED"
        ELSE IF "GetDeviceProcAddr" \notin this THEN "VK_ERROR_INITIALIZATION_FAILED"
        ELSE IF "EnumerateInstanceVersion" \notin this /\ apiVersion >= VK_API_VERSION_1_1
             THEN "VK_ERROR_INITIALIZATION_FAILED"
        ELSE IF "EnumerateInstanceExtensionProperties" \notin this
             THEN "VK_ERROR_INITIALIZATION_FAILED"
        ELSE IF "EnumerateDeviceExtensionProperties" \notin this
             THEN "VK_ERROR_INITIALIZATION_FAILED"
        ELSE IF "GetPhysicalDeviceFeatures2" \notin this THEN missing
        ELSE IF "GetPhysicalDeviceProperties2" \notin this THEN missing
        ELSE IF "GetPhysicalDeviceFormatProperties2" \notin this THEN missing
        ELSE IF "GetPhysicalDeviceQueueFamilyProperties2" \notin this THEN missing
        ELSE IF "CreateInstance" \notin this THEN "VK_ERROR_INITIALIZATION_FAILED"
        ELSE IF "CreateDevice" \notin this THEN "VK_ERROR_INITIALIZATION_FAILED"
        ELSE "VK_SUCCESS"

\* the constructor, ImportVulkanFunctions_Static and ImportVulkanFunctions_Custom
ImportVulkanFunctions(pCreateInfo) ==
    LET constructed == {}
        static == IF pCreateInfo.VP_PROFILE_CREATE_STATIC_BIT
                     THEN VpVulkanFunctions ELSE constructed
    IN  IF pCreateInfo.pVulkanFunctions # <<>>
           THEN static \cup pCreateInfo.pVulkanFunctions[1]
           ELSE static

\* pVulkanFunctions is <<>> for a null pointer and <<members>> for a pointer to
\* a struct whose non-null members are `members`
VpCapabilitiesCreateInfo ==
    [VP_PROFILE_CREATE_STATIC_BIT : BOOLEAN,
     pVulkanFunctions : {<<>>} \cup {<<members>> : members \in SUBSET VpVulkanFunctions}]

vpCreateCapabilities ==
    /\ apiCall = "none"
    /\ \E pCreateInfo \in VpCapabilitiesCreateInfo :
           LET capabilities == ImportVulkanFunctions(pCreateInfo)
           IN  ApiStep("vpCreateCapabilities", pCreateInfo,
                       [ret |-> ValidateVulkanFunctions(capabilities, VpCapabilities_T_apiVersion),
                        pCapabilities |-> capabilities])

----------------------------------------------------------------------------
(* Struct chains. A chain is the sequence of its links from the head to the *)
(* link whose pNext is null; a link is its sType and its VkBool32 members   *)
(* in declaration order. A pointer into a chain is the index of the link,   *)
(* 0 for a null pointer.                                                    *)

MaxChainLen == 2

\* the VkBool32 members of the feature structs, in declaration order
FeatureMembers(sType) ==
    CASE sType = "PHYSICAL_DEVICE_FEATURES_2_KHR" -> <<"robustBufferAccess", "shaderInt16">>
      [] sType = "PHYSICAL_DEVICE_TIMELINE_SEMAPHORE_FEATURES" -> <<"timelineSemaphore">>
      [] sType = "PHYSICAL_DEVICE_VULKAN_1_3_FEATURES" ->
            <<"robustImageAccess", "synchronization2">>
      [] sType = "PHYSICAL_DEVICE_ROBUSTNESS_2_FEATURES_EXT" ->
            <<"robustBufferAccess2", "robustImageAccess2">>
      [] sType = "PHYSICAL_DEVICE_IMAGE_ROBUSTNESS_FEATURES" -> <<"robustImageAccess">>
      [] OTHER -> <<>>

\* Mutant: the timeline semaphore features are not inserted into the map.
structureSize_NoTimeline(sType) ==
    IF sType = "PHYSICAL_DEVICE_TIMELINE_SEMAPHORE_FEATURES" THEN 0
    ELSE Len(FeatureMembers(sType))

\* FeaturesChain::structureSize[sType]; operator[] of the map gives 0 for a
\* type that was never inserted
structureSize(sType) == Len(FeatureMembers(sType))

\* a struct initialised as { sType, nullptr }: every member is zero
ZeroStruct(sType) == [sType |-> sType, flags |-> [i \in 1..structureSize(sType) |-> FALSE]]

\* vpGetStructure(pNext, type): the first link with that sType
vpGetStructure(pNext, type) ==
    LET hits == {i \in DOMAIN pNext : pNext[i].sType = type}
    IN  IF hits = {} THEN 0 ELSE CHOOSE i \in hits : \A j \in hits : i <= j

\* Mutant: the link that is taken out keeps its pNext.
vpExtractStructure_KeepNext(pFeatures, structureType) ==
    LET current == vpGetStructure(pFeatures, structureType)
    IN  IF structureType = "PHYSICAL_DEVICE_FEATURES_2_KHR" \/ current = 0
           THEN [found |-> <<>>, pFeatures |-> pFeatures]
           ELSE [found |-> SubSeq(pFeatures, current, Len(pFeatures)),
                 pFeatures |-> SubSeq(pFeatures, 1, current - 1)
                               \o SubSeq(pFeatures, current + 1, Len(pFeatures))]

\* vpExtractStructure(pFeatures, structureType): `found` is the chain that
\* starts at the returned link (<<>> for nullptr), `pFeatures` the chain that is
\* left. A match at the head itself (previous == nullptr) is not unlinked, and
\* clearing its pNext cuts the chain behind it.
vpExtractStructure(pFeatures, structureType) ==
    LET current == vpGetStructure(pFeatures, structureType)
    IN  IF structureType = "PHYSICAL_DEVICE_FEATURES_2_KHR" \/ current = 0
           THEN [found |-> <<>>, pFeatures |-> pFeatures]
           ELSE [found |-> <<pFeatures[current]>>,
                 pFeatures |-> IF current = 1 THEN <<pFeatures[1]>>
                               ELSE SubSeq(pFeatures, 1, current - 1)
                                    \o SubSeq(pFeatures, current + 1, Len(pFeatures))]

\* Mutant: the types of the chain are not gathered.
GatherStructureTypes_None(structureTypes, pNext) == structureTypes

\* GatherStructureTypes(structureTypes, pNext)
GatherStructureTypes(structureTypes, pNext) ==
    PushUnique(structureTypes, [i \in DOMAIN pNext |-> pNext[i].sType])

\* the links a caller can put behind a VkPhysicalDeviceFeatures2KHR head
ChainLinks ==
    { [sType |-> "PHYSICAL_DEVICE_TIMELINE_SEMAPHORE_FEATURES", flags |-> <<TRUE>>],
      [sType |-> "PHYSICAL_DEVICE_TIMELINE_SEMAPHORE_FEATURES", flags |-> <<FALSE>>],
      [sType |-> "PHYSICAL_DEVICE_VULKAN_1_3_FEATURES", flags |-> <<FALSE, TRUE>>] }

\* the sequences over `set` of at most n elements
SeqsUpTo(set, n) == UNION {[1..k -> set] : k \in 0..n}

FeatureChains ==
    {<<ZeroStruct("PHYSICAL_DEVICE_FEATURES_2_KHR")>> \o tail :
        tail \in SeqsUpTo(ChainLinks, MaxChainLen)}

StructureTypes ==
    {"PHYSICAL_DEVICE_FEATURES_2_KHR", "PHYSICAL_DEVICE_TIMELINE_SEMAPHORE_FEATURES",
     "PHYSICAL_DEVICE_VULKAN_1_3_FEATURES", "PHYSICAL_DEVICE_ROBUSTNESS_2_FEATURES_EXT"}

\* vpExtractStructure on a chain, then vpGetStructure on what is left of it
ExtractStructure ==
    /\ apiCall = "none"
    /\ \E chain \in FeatureChains, type \in StructureTypes :
          LET e == vpExtractStructure(chain, type)
          IN  ApiStep("vpExtractStructure",
                      [pFeatures |-> chain, structureType |-> type],
                      [found |-> e.found, pFeatures |-> e.pFeatures,
                       again |-> vpGetStructure(e.pFeatures, type)])

----------------------------------------------------------------------------
(* FeaturesChain and vpCreateDevice *)

\* FeaturesChain(): physicalDeviceFeatures2KHR heads the chain of every feature
\* struct the library knows, each one pointing at the struct declared before it
physicalDeviceFeatures2KHR ==
    << ZeroStruct("PHYSICAL_DEVICE_FEATURES_2_KHR"),
       ZeroStruct("PHYSICAL_DEVICE_IMAGE_ROBUSTNESS_FEATURES"),
       ZeroStruct("PHYSICAL_DEVICE_ROBUSTNESS_2_FEATURES_EXT"),
       ZeroStruct("PHYSICAL_DEVICE_VULKAN_1_3_FEATURES"),
       ZeroStruct("PHYSICAL_DEVICE_TIMELINE_SEMAPHORE_FEATURES") >>

\* FeaturesChain::Build: requiredFeaturesChain after PushBack of every struct of
\* requiredList that could be taken out of the chain `master`
RECURSIVE Build(_, _, _)
Build(master, requiredFeaturesChain, requiredList) ==
    IF requiredList = <<>> THEN requiredFeaturesChain
    ELSE LET e == vpExtractStructure(master, Head(requiredList))
         IN  Build(e.pFeatures, requiredFeaturesChain \o e.found, Tail(requiredList))

\* feature.pfnFiller of namespace `desc`, applied to one struct
FeatureFiller(desc, p) ==
    IF desc = "baseline" /\ p.sType = "PHYSICAL_DEVICE_TIMELINE_SEMAPHORE_FEATURES"
       THEN [p EXCEPT !.flags[1] = TRUE]
       ELSE p

\* the loop of vpCreateDevice that runs the filler of every variant over the chain
RECURSIVE FillFeatures(_, _)
FillFeatures(variants, chain) ==
    IF variants = <<>> THEN chain
    ELSE FillFeatures(Tail(variants),
                      [i \in DOMAIN chain |-> FeatureFiller(Head(variants).feature, chain[i])])

\* the position of a member in its struct
Member(sType, name) ==
    CHOOSE i \in DOMAIN FeatureMembers(sType) : FeatureMembers(sType)[i] = name

\* p->member = VK_FALSE, where p = vpGetStructure(chain, sType), if p is not null
\* and the bit is set in pCreateInfo->flags
ForceFalse(chain, flags, bit, sType, name) ==
    LET p == vpGetStructure(chain, sType)
    IN  IF p # 0 /\ bit \in flags
           THEN [chain EXCEPT ![p].flags[Member(sType, name)] = FALSE]
           ELSE chain

VP_DEVICE_CREATE_DISABLE_ROBUST_BUFFER_ACCESS_BIT == "VP_DEVICE_CREATE_DISABLE_ROBUST_BUFFER_ACCESS_BIT"
VP_DEVICE_CREATE_DISABLE_ROBUST_IMAGE_ACCESS_BIT == "VP_DEVICE_CREATE_DISABLE_ROBUST_IMAGE_ACCESS_BIT"

\* Mutant: the image opt-out is not looked at.
ApplyRobustness_BufferOnly(chain, flags) ==
    LET c1 == ForceFalse(chain, flags, VP_DEVICE_CREATE_DISABLE_ROBUST_BUFFER_ACCESS_BIT,
                         "PHYSICAL_DEVICE_FEATURES_2_KHR", "robustBufferAccess")
    IN  ForceFalse(c1, flags, VP_DEVICE_CREATE_DISABLE_ROBUST_BUFFER_ACCESS_BIT,
                   "PHYSICAL_DEVICE_ROBUSTNESS_2_FEATURES_EXT", "robustBufferAccess2")

\* FeaturesChain::ApplyRobustness
ApplyRobustness(chain, flags) ==
    LET c1 == ForceFalse(chain, flags, VP_DEVICE_CREATE_DISABLE_ROBUST_BUFFER_ACCESS_BIT,
                         "PHYSICAL_DEVICE_FEATURES_2_KHR", "robustBufferAccess")
        c2 == ForceFalse(c1, flags, VP_DEVICE_CREATE_DISABLE_ROBUST_BUFFER_ACCESS_BIT,
                         "PHYSICAL_DEVICE_ROBUSTNESS_2_FEATURES_EXT", "robustBufferAccess2")
        c3 == ForceFalse(c2, flags, VP_DEVICE_CREATE_DISABLE_ROBUST_IMAGE_ACCESS_BIT,
                         "PHYSICAL_DEVICE_ROBUSTNESS_2_FEATURES_EXT", "robustImageAccess2")
        c4 == ForceFalse(c3, flags, VP_DEVICE_CREATE_DISABLE_ROBUST_IMAGE_ACCESS_BIT,
                         "PHYSICAL_DEVICE_IMAGE_ROBUSTNESS_FEATURES", "robustImageAccess")
    IN  ForceFalse(c4, flags, VP_DEVICE_CREATE_DISABLE_ROBUST_IMAGE_ACCESS_BIT,
                   "PHYSICAL_DEVICE_VULKAN_1_3_FEATURES", "robustImageAccess")

\* Mutant: a flag set on both sides is cleared.
MergeStruct_Xor(chain, q) ==
    LET p == vpGetStructure(chain, q.sType)
    IN  IF structureSize(q.sType) = 0 THEN chain
        ELSE [chain EXCEPT ![p].flags = [index \in DOMAIN @ |-> @[index] # q.flags[index]]]

\* Mutant: the caller's value replaces the value of the chain.
MergeStruct_Replace(chain, q) ==
    LET p == vpGetStructure(chain, q.sType)
    IN  IF structureSize(q.sType) = 0 THEN chain
        ELSE [chain EXCEPT ![p].flags = [index \in DOMAIN @ |-> q.flags[index]]]

\* the body of the loop of ApplyFeatures for one struct q of the caller's chain:
\* output[index] = output[index] || input[index] for index < structureSize[sType]
MergeStruct(chain, q) ==
    LET p == vpGetStructure(chain, q.sType)
    IN  IF structureSize(q.sType) = 0 THEN chain
        ELSE [chain EXCEPT ![p].flags = [index \in DOMAIN @ |-> @[index] \/ q.flags[index]]]

\* FeaturesChain::ApplyFeatures: the loop over the caller's chain, then
\* ApplyRobustness
RECURSIVE ApplyFeatures(_, _, _)
ApplyFeatures(chain, q, flags) ==
    IF q = <<>> THEN ApplyRobustness(chain, flags)
    ELSE ApplyFeatures(MergeStruct(chain, Head(q)), Tail(q), flags)

\* GatherBlocks: a block with an empty name for every profile gathered from an
\* enabled full profile, then the enabled blocks
RECURSIVE GatherBlocks(_, _, _)
GatherBlocks(table, pEnabledFullProfiles, pEnabledProfileBlocks) ==
    IF pEnabledFullProfiles = <<>> THEN pEnabledProfileBlocks
    ELSE LET gathered == GatherProfiles(table, Head(pEnabledFullProfiles))
         IN  [i \in DOMAIN gathered |-> VpBlockProperties(gathered[i], 0)]
             \o GatherBlocks(table, Tail(pEnabledFullProfiles), pEnabledProfileBlocks)

\* the variants the first loop over the blocks does not `continue` past
RECURSIVE SelectedVariants(_, _)
SelectedVariants(table, blocks) ==
    IF blocks = <<>> THEN <<>>
    ELSE VisitedVariants(table, <<Head(blocks).profiles>>,
                         IF Head(blocks).blockName = "" THEN nullptr
                         ELSE Head(blocks).blockName)
         \o SelectedVariants(table, Tail(blocks))

\* the variants of the second loop over the blocks, which skips none
AllVariants(table, blocks) ==
    VisitedVariants(table, [i \in DOMAIN blocks |-> blocks[i].profiles], nullptr)

\* a struct of a pNext chain that is no feature struct
VkDeviceGroupDeviceCreateInfo == [sType |-> "DEVICE_GROUP_DEVICE_CREATE_INFO", flags |-> <<>>]

\* the structs a caller chains to VkDeviceCreateInfo
DeviceLinks ==
    { [sType |-> "PHYSICAL_DEVICE_TIMELINE_SEMAPHORE_FEATURES", flags |-> <<FALSE>>],
      [sType |-> "PHYSICAL_DEVICE_VULKAN_1_3_FEATURES", flags |-> <<TRUE, TRUE>>],
      [sType |-> "PHYSICAL_DEVICE_ROBUSTNESS_2_FEATURES_EXT", flags |-> <<TRUE, TRUE>>],
      [sType |-> "PHYSICAL_DEVICE_IMAGE_ROBUSTNESS_FEATURES", flags |-> <<TRUE>>],
      VkDeviceGroupDeviceCreateInfo }

\* the chains of feature structs that are merged into a required chain
RequestedChains ==
    SeqsUpTo(ChainLinks \cup {[sType |-> "PHYSICAL_DEVICE_VULKAN_1_3_FEATURES",
                               flags |-> <<TRUE, FALSE>>],
                              VkDeviceGroupDeviceCreateInfo}, MaxChainLen)

\* ApplyFeatures on a FeaturesChain built for the types of the chains R1 and
\* R2: with R1 once and twice, and with R1 and R2 in both orders
ApplyFeaturesCalls ==
    /\ apiCall = "none"
    /\ \E R1 \in RequestedChains, R2 \in RequestedChains,
          flags \in SUBSET {VP_DEVICE_CREATE_DISABLE_ROBUST_BUFFER_ACCESS_BIT,
                            VP_DEVICE_CREATE_DISABLE_ROBUST_IMAGE_ACCESS_BIT} :
          LET structureTypes == GatherStructureTypes(GatherStructureTypes(<<>>, R1), R2)
              built == Build(physicalDeviceFeatures2KHR,
                             <<ZeroStruct("PHYSICAL_DEVICE_FEATURES_2_KHR")>>, structureTypes)
              once == ApplyFeatures(built, R1, flags)
          IN  ApiStep("ApplyFeatures", [R1 |-> R1, R2 |-> R2, flags |-> flags],
                      [built |-> built,
                       once |-> once,
                       twice |-> ApplyFeatures(once, R1, flags),
                       r1r2 |-> ApplyFeatures(once, R2, flags),
                       r2r1 |-> ApplyFeatures(ApplyFeatures(built, R2, flags), R1, flags)])

\* VkDeviceCreateInfo as a caller fills it; pEnabledFeatures is <<>> for a null
\* pointer and <<members>> for a pointer to VkPhysicalDeviceFeatures
VkDeviceCreateInfo ==
    [pNext : SeqsUpTo(DeviceLinks, MaxChainLen),
     flags : {0},
     pQueueCreateInfos : {<<"queue">>},
     ppEnabledLayerNames : {<<>>, <<"VK_LAYER_KHRONOS_validation">>},
     ppEnabledExtensionNames : {<<>>, <<VK_KHR_SWAPCHAIN, VK_KHR_SWAPCHAIN>>},
     pEnabledFeatures : {<<>>, <<<<TRUE, TRUE>>>>}]

\* the enabled full profiles and blocks a caller names
EnabledProfiles(table) == SeqsUpTo(ProfileArguments(table), 1)

\* the blocks of a profile, and one whose name no variant of it has
ProfileBlocks(table, p) ==
    LET d == vpGetProfileDesc(table, p.profileName)
    IN  IF d = 0 THEN {}
        ELSE { [profiles |-> p, apiVersion |-> 0, blockName |-> b] :
                  b \in BlockNames(<<table[d]>>) \ {nullptr} }

EnabledBlocks(table) ==
    {<<>>} \cup {<<b>> : b \in UNION {ProfileBlocks(table, p) : p \in ProfileArguments(table)}}

\* the types of the structs of the caller's chain q for which the loop of
\* ApplyFeatures has a size and vpGetStructure finds no struct in the required
\* chain: pOutputStruct is null and output[index] is written through it
NullOutputs(chain, q) ==
    {q[i].sType : i \in {j \in DOMAIN q : /\ structureSize(q[j].sType) > 0
                                          /\ vpGetStructure(chain, q[j].sType) = 0}}

\* the required chain of vpCreateDevice when chain->Build has returned
BuiltChain(table, pCreateInfo) ==
    LET blocks == GatherBlocks(table, pCreateInfo.pEnabledFullProfiles,
                               pCreateInfo.pEnabledProfileBlocks)
        selected == SelectedVariants(table, blocks)
        structureTypes == GatherStructureTypes(Collect(selected, "STRUCTURE_FEATURE", <<>>),
                                               pCreateInfo.pCreateInfo.pNext)
    IN  Build(physicalDeviceFeatures2KHR,
              <<ZeroStruct("PHYSICAL_DEVICE_FEATURES_2_KHR")>>, structureTypes)

\* what vpCreateDevice passes to vp.CreateDevice on its merging path
DeviceCreateInfo(table, pCreateInfo) ==
    LET blocks == GatherBlocks(table, pCreateInfo.pEnabledFullProfiles,
                               pCreateInfo.pEnabledProfileBlocks)
        selected == SelectedVariants(table, blocks)
        extensions == Collect(selected, "EXTENSION_DEVICE",
                              pCreateInfo.pCreateInfo.ppEnabledExtensionNames)
        built == BuiltChain(table, pCreateInfo)
        enabled == IF pCreateInfo.pCreateInfo.pEnabledFeatures # <<>>
                      THEN [built EXCEPT ![1].flags = pCreateInfo.pCreateInfo.pEnabledFeatures[1]]
                      ELSE built
        filled == FillFeatures(AllVariants(table, blocks), enabled)
        applied == ApplyFeatures(filled, pCreateInfo.pCreateInfo.pNext, pCreateInfo.flags)
        chain == IF VP_DEVICE_CREATE_DISABLE_ROBUST_BUFFER_ACCESS_BIT \in pCreateInfo.flags
                    THEN [applied EXCEPT ![1].flags[1] = FALSE]
                    ELSE applied
    IN  [pNext |-> chain,
         flags |-> 0,
         pQueueCreateInfos |-> pCreateInfo.pCreateInfo.pQueueCreateInfos,
         ppEnabledLayerNames |-> <<>>,
         ppEnabledExtensionNames |-> extensions,
         pEnabledFeatures |-> <<>>]

\* vpCreateDevice; `forwarded` is <<>> when vp.CreateDevice is not called and
\* <<createInfo>> when it is, and the underlying call succeeds. With a null
\* pDevice the caller's create-info is passed on whatever else is asked for.
\* A write of ApplyFeatures through a null output struct is undefined: the call
\* may end there ("fault") or go on.
vpCreateDevice ==
    /\ apiCall = "none"
    /\ \/ \E info \in VkDeviceCreateInfo :
             ApiStep("vpCreateDevice",
                     [pCreateInfo |-> [pCreateInfo |-> info, flags |-> {},
                                       pEnabledFullProfiles |-> <<>>,
                                       pEnabledProfileBlocks |-> <<>>],
                      pDevice |-> nullptr],
                     [ret |-> "VK_SUCCESS", forwarded |-> <<info>>])
       \/ \E full \in EnabledProfiles(profiles), named \in EnabledBlocks(profiles),
             info \in VkDeviceCreateInfo,
             flags \in SUBSET {VP_DEVICE_CREATE_DISABLE_ROBUST_BUFFER_ACCESS_BIT,
                               VP_DEVICE_CREATE_DISABLE_ROBUST_IMAGE_ACCESS_BIT} :
             LET pCreateInfo == [pCreateInfo |-> info, flags |-> flags,
                                 pEnabledFullProfiles |-> full,
                                 pEnabledProfileBlocks |-> named]
                 blocks == GatherBlocks(profiles, full, named)
                 outcomes ==
                     IF GatheredUnknown(profiles, [i \in DOMAIN blocks |-> blocks[i].profiles])
                        THEN {[ret |-> "VK_ERROR_UNKNOWN", forwarded |-> <<>>]}
                        ELSE {[ret |-> "VK_SUCCESS",
                               forwarded |-> <<DeviceCreateInfo(profiles, pCreateInfo)>>]}
                             \cup (IF NullOutputs(BuiltChain(profiles, pCreateInfo),
                                                  info.pNext) # {}
                                      THEN {[ret |-> "fault", forwarded |-> <<>>]}
                                      ELSE {})
             IN  \E r \in outcomes :
                    ApiStep("vpCreateDevice",
                            [pCreateInfo |-> pCreateInfo, pDevice |-> "pDevice"], r)

----------------------------------------------------------------------------
(* vpGetProfileAPIVersion and vpCreateInstance (built without __APPLE__) *)

VK_API_VERSION_PATCH(v) == v % 4096

\* the largest element of a set of numbers, 0 for the empty set
MaxOf(S) == CHOOSE m \in S \cup {0} : \A x \in S : x <= m

\* vpGetProfileAPIVersion: 0 if a gathered profile is unknown, else the largest
\* major, the largest minor and the largest patch number put together
vpGetProfileAPIVersion(table, profile) ==
    LET gathered == GatherProfiles(table, profile)
        minApiVersion == {table[vpGetProfileDesc(table, gathered[i].profileName)].minApiVersion :
                             i \in DOMAIN gathered}
    IN  IF GatheredUnknown(table, gathered) THEN 0
        ELSE VK_MAKE_API_VERSION(MaxOf({VK_API_VERSION_MAJOR(v) : v \in minApiVersion}),
                                 MaxOf({VK_API_VERSION_MINOR(v) : v \in minApiVersion}),
                                 MaxOf({VK_API_VERSION_PATCH(v) : v \in minApiVersion}))

\* VkApplicationInfo appInfo{VK_STRUCTURE_TYPE_APPLICATION_INFO}
VkApplicationInfo(apiVersion) == [pApplicationName |-> nullptr, apiVersion |-> apiVersion]

\* VkInstanceCreateInfo as a caller fills it; pApplicationInfo is <<>> for a
\* null pointer and <<info>> for a pointer to a VkApplicationInfo
VkInstanceCreateInfo ==
    [pNext : {<<>>, <<[sType |-> "DEBUG_UTILS_MESSENGER_CREATE_INFO_EXT"]>>},
     flags : {0, 1},
     pApplicationInfo :
        {<<>>} \cup {<<[pApplicationName |-> "app", apiVersion |-> v]>> :
                        v \in {0, VK_API_VERSION_1_0, VK_API_VERSION_1_1, VK_API_VERSION_1_2}},
     ppEnabledLayerNames : {<<>>, <<"VK_LAYER_KHRONOS_validation">>},
     ppEnabledExtensionNames :
        {<<>>, <<VK_KHR_GET_PHYSICAL_DEVICE_PROPERTIES_2>>, <<VK_KHR_SURFACE, VK_EXT_DEBUG_UTILS>>}]

\* Mutant: the extension is pushed without looking for it in the list.
InjectGPDP2_Always(apiVersion, extensions) ==
    IF apiVersion < VK_API_VERSION_1_1
       THEN Append(extensions, VK_KHR_GET_PHYSICAL_DEVICE_PROPERTIES_2)
       ELSE extensions

\* the block of vpCreateInstance that adds VK_KHR_get_physical_device_properties2
InjectGPDP2(apiVersion, extensions) ==
    IF apiVersion < VK_API_VERSION_1_1
          /\ ~\E ext_index \in DOMAIN extensions :
                 extensions[ext_index] = VK_KHR_GET_PHYSICAL_DEVICE_PROPERTIES_2
       THEN Append(extensions, VK_KHR_GET_PHYSICAL_DEVICE_PROPERTIES_2)
       ELSE extensions

\* what vpCreateInstance passes to vp.CreateInstance on its merging path
InstanceCreateInfo(table, pCreateInfo) ==
    LET blocks == GatherBlocks(table, pCreateInfo.pEnabledFullProfiles,
                               pCreateInfo.pEnabledProfileBlocks)
        extensions == Collect(SelectedVariants(table, blocks), "EXTENSION_INSTANCE",
                              pCreateInfo.pCreateInfo.ppEnabledExtensionNames)
        appInfo == IF pCreateInfo.pCreateInfo.pApplicationInfo # <<>>
                      THEN pCreateInfo.pCreateInfo.pApplicationInfo[1]
                   ELSE IF blocks # <<>>
                      THEN VkApplicationInfo(vpGetProfileAPIVersion(table, blocks[1].profiles))
                   ELSE VkApplicationInfo(0)
    IN  [pCreateInfo.pCreateInfo EXCEPT
            !.pApplicationInfo = <<appInfo>>,
            !.ppEnabledExtensionNames = InjectGPDP2(appInfo.apiVersion, extensions)]

\* vpCreateInstance; `forwarded` is <<>> when vp.CreateInstance is not called and
\* <<createInfo>> when it is, and the underlying call succeeds. With a null
\* pInstance the caller's create-info is passed on whatever else is asked for.
vpCreateInstance ==
    /\ apiCall = "none"
    /\ \/ \E info \in VkInstanceCreateInfo :
             ApiStep("vpCreateInstance",
                     [pCreateInfo |-> [pCreateInfo |-> info,
                                       pEnabledFullProfiles |-> <<>>,
                                       pEnabledProfileBlocks |-> <<>>],
                      pInstance |-> nullptr],
                     [ret |-> "VK_SUCCESS", forwarded |-> <<info>>])
       \/ \E full \in EnabledProfiles(profiles), named \in EnabledBlocks(profiles),
             info \in VkInstanceCreateInfo :
             LET pCreateInfo == [pCreateInfo |-> info,
                                 pEnabledFullProfiles |-> full,
                                 pEnabledProfileBlocks |-> named]
                 blocks == GatherBlocks(profiles, full, named)
             IN  ApiStep("vpCreateInstance",
                         [pCreateInfo |-> pCreateInfo, pInstance |-> "pInstance"],
                         IF GatheredUnknown(profiles, [i \in DOMAIN blocks |-> blocks[i].profiles])
                            THEN [ret |-> "VK_ERROR_UNKNOWN", forwarded |-> <<>>]
                            ELSE [ret |-> "VK_SUCCESS",
                                  forwarded |-> <<InstanceCreateInfo(profiles, pCreateInfo)>>])

\* the caller has taken the results
ApiReturn ==
    /\ apiCall # "none"
    /\ apiCall' = "none"
    /\ params' = <<>>
    /\ returned' = <<>>
    /\ UNCHANGED <<profiles, queryVars>>

ApiNext ==
    \/ vpGetProfiles
    \/ vpGetProfileRequiredProfiles
    \/ vpGetProfileFallbacks
    \/ vpGetProfileExtensionProperties
    \/ vpGetProfileStructureTypes
    \/ vpGetProfileFormats
    \/ GetProfileDesc
    \/ vpCreateCapabilities
    \/ ExtractStructure
    \/ vpCreateDevice
    \/ vpCreateInstance
    \/ ApplyFeaturesCalls
    \/ ApiReturn

ApiSpec == Init /\ [][ApiNext]_vars

----------------------------------------------------------------------------
(* The FeaturesChain object: its structs and the pointers that link them *)

MaxBuilds == 2

\* the structs a FeaturesChain holds, by member name, with the sType each one
\* is initialised with
sTypeOf ==
    [ physicalDeviceTimelineSemaphoreFeatures |->
          "PHYSICAL_DEVICE_TIMELINE_SEMAPHORE_FEATURES",
      physicalDeviceVulkan13Features |-> "PHYSICAL_DEVICE_VULKAN_1_3_FEATURES",
      physicalDeviceRobustness2FeaturesEXT |->
          "PHYSICAL_DEVICE_ROBUSTNESS_2_FEATURES_EXT",
      physicalDeviceImageRobustnessFeatures |->
          "PHYSICAL_DEVICE_IMAGE_ROBUSTNESS_FEATURES",
      physicalDeviceFeatures2KHR |-> "PHYSICAL_DEVICE_FEATURES_2_KHR",
      requiredFeaturesChain |-> "PHYSICAL_DEVICE_FEATURES_2_KHR" ]

\* the member structs of the chain of all features, in declaration order
DeclaredStructs ==
    << "physicalDeviceTimelineSemaphoreFeatures", "physicalDeviceVulkan13Features",
       "physicalDeviceRobustness2FeaturesEXT", "physicalDeviceImageRobustnessFeatures",
       "physicalDeviceFeatures2KHR" >>

\* FeaturesChain(): the pNext of every struct once the constructor has run; each
\* declared struct points at the one declared before it, the first at nothing
ConstructedChain ==
    [o \in DOMAIN sTypeOf |->
        IF \E i \in 2..Len(DeclaredStructs) : DeclaredStructs[i] = o
           THEN DeclaredStructs[(CHOOSE i \in 2..Len(DeclaredStructs) :
                                    DeclaredStructs[i] = o) - 1]
           ELSE nullptr]

\* the loop of vpExtractStructure: walks from `current` with `previous` behind
\* it and takes the first struct of the type out of the chain
RECURSIVE ExtractLoop(_, _, _, _)
ExtractLoop(pNext, structureType, current, previous) ==
    IF current = nullptr THEN [found |-> nullptr, pNext |-> pNext]
    ELSE IF structureType = sTypeOf[current]
            THEN [found |-> current,
                  pNext |-> IF previous # nullptr
                               THEN [pNext EXCEPT ![previous] = pNext[current]]
                               ELSE pNext]
            ELSE ExtractLoop(pNext, structureType, pNext[current], current)

\* Mutant: the struct that is taken out keeps pointing at its successor.
ExtractPointer_KeepNext(pNext, pFeatures, structureType) ==
    IF structureType = "PHYSICAL_DEVICE_FEATURES_2_KHR"
       THEN [found |-> nullptr, pNext |-> pNext]
       ELSE ExtractLoop(pNext, structureType, pFeatures, nullptr)

\* vpExtractStructure on the structs of the object: the struct found (or
\* nullptr) and the pointers afterwards
ExtractPointer(pNext, pFeatures, structureType) ==
    IF structureType = "PHYSICAL_DEVICE_FEATURES_2_KHR"
       THEN [found |-> nullptr, pNext |-> pNext]
       ELSE LET walked == ExtractLoop(pNext, structureType, pFeatures, nullptr)
            IN  IF walked.found # nullptr
                   THEN [found |-> walked.found,
                         pNext |-> [walked.pNext EXCEPT ![walked.found] = nullptr]]
                   ELSE walked

\* the loop of PushBack: the last struct reachable from `last`
RECURSIVE LastOf(_, _)
LastOf(pNext, last) == IF pNext[last] # nullptr THEN LastOf(pNext, pNext[last]) ELSE last

\* Mutant: the struct is linked in right behind the head.
PushBack_Front(pNext, found) ==
    [pNext EXCEPT ![found] = pNext["requiredFeaturesChain"],
                  !["requiredFeaturesChain"] = found]

\* FeaturesChain::PushBack
PushBack(pNext, found) == [pNext EXCEPT ![LastOf(pNext, "requiredFeaturesChain")] = found]

\* FeaturesChain::Build on the structs of the object
RECURSIVE BuildChain(_, _)
BuildChain(pNext, requiredList) ==
    IF requiredList = <<>> THEN pNext
    ELSE LET sType == Head(requiredList)
             extracted == ExtractPointer(pNext, "physicalDeviceFeatures2KHR", sType)
         IN  IF sType = "PHYSICAL_DEVICE_FEATURES_2_KHR" \/ extracted.found = nullptr
                THEN BuildChain(pNext, Tail(requiredList))
                ELSE BuildChain(PushBack(extracted.pNext, extracted.found),
                                Tail(requiredList))

\* the types a required list is made of: the feature structs of the object
\* and one type that is no feature struct
RequiredTypes ==
    {sTypeOf[o] : o \in DOMAIN sTypeOf} \cup {VkDeviceGroupDeviceCreateInfo.sType}

\* std::make_unique<FeaturesChain>()
FeaturesChain ==
    /\ apiCall = "none"
    /\ pc = "idle"
    /\ apiCall' = "FeaturesChain"
    /\ params' = <<>>
    /\ returned' = [pNext |-> ConstructedChain, builds |-> 0]
    /\ UNCHANGED <<profiles, queryVars>>

\* chain->Build(requiredList) on the object
BuildCall ==
    /\ apiCall = "FeaturesChain"
    /\ returned.builds < MaxBuilds
    /\ \E requiredList \in SeqsUpTo(RequiredTypes, MaxChainLen) :
          /\ params' = [requiredList |-> requiredList, pNext |-> returned.pNext]
          /\ returned' = [pNext |-> BuildChain(returned.pNext, requiredList),
                          builds |-> returned.builds + 1]
    /\ UNCHANGED <<apiCall, profiles, queryVars>>

ChainNext ==
    \/ FeaturesChain
    \/ BuildCall
    \/ ApiReturn

ChainSpec == Init /\ [][ChainNext]_vars

----------------------------------------------------------------------------
(* Properties of the enumeration functions and of the table lookup *)

EnumerationFunctions ==
    {"vpGetProfiles", "vpGetProfileRequiredProfiles", "vpGetProfileFallbacks",
     "vpGetProfileExtensionProperties", "vpGetProfileStructureTypes",
     "vpGetProfileFormats"}

\* an enumeration function was called for a profile of the table
Enumerated == apiCall \in EnumerationFunctions /\ returned.ret # "VK_ERROR_UNKNOWN"

\* all the entries the function called has to report
AllEntries ==
    LET gathered == IF apiCall = "vpGetProfileExtensionProperties"
                       /\ params.pBlockName # nullptr
                       THEN <<params.pProfile>>
                       ELSE GatherProfiles(profiles, params.pProfile)
    IN  CASE apiCall = "vpGetProfiles" -> [i \in DOMAIN profiles |-> profiles[i].props]
          [] apiCall = "vpGetProfileRequiredProfiles" ->
                Desc(params.pProfile.profileName).pRequiredProfiles
          [] apiCall = "vpGetProfileFallbacks" ->
                Desc(params.pProfile.profileName).pFallbacks
          [] apiCall = "vpGetProfileStructureTypes" ->
                SortTypes(Collect(VisitedVariants(profiles, gathered, params.pBlockName),
                                  params.type, <<>>))
          [] OTHER ->
                Collect(VisitedVariants(profiles, gathered, params.pBlockName),
                        params.type, <<>>)

(* C11: an enumeration function called with a null buffer stores the total  *)
(* number of entries and writes nothing; with a capacity of at least the    *)
(* total it writes all entries and stores the total; with a smaller         *)
(* capacity it writes exactly the first `capacity` entries, leaves the      *)
(* count at the capacity and returns VK_INCOMPLETE.                         *)
C11_TwoCallEnumeration ==
    Enumerated =>
        LET total == Len(AllEntries)
        IN  /\ ~params.buf =>
                  (returned.pPropertyCount = total /\ returned.pProperties = <<>>)
            /\ (params.buf /\ params.cap >= total) =>
                  (returned.pProperties = AllEntries /\ returned.pPropertyCount = total)
            /\ (params.buf /\ params.cap < total) =>
                  /\ returned.pProperties = SubSeq(AllEntries, 1, params.cap)
                  /\ returned.pPropertyCount = params.cap
                  /\ returned.ret = "VK_INCOMPLETE"

C11_Witness ==
    /\ apiCall = "vpGetProfileStructureTypes"
    /\ Enumerated
    /\ params.buf
    /\ params.cap = 1
    /\ Len(AllEntries) > 1
    /\ returned.ret = "VK_INCOMPLETE"
    /\ Len(returned.pProperties) = 1

(* C12: vpGetProfileDesc returns, for a name of the profile table, the one  *)
(* entry of the table that has this name, and a null pointer for any other  *)
(* name.                                                                    *)
C12_LookupFindsTheEntry ==
    apiCall = "vpGetProfileDesc" =>
        LET hits == {i \in DOMAIN profiles :
                        profiles[i].props.profileName = params.profileName}
        IN  IF hits = {}
               THEN returned.desc = 0
               ELSE hits = {returned.desc}

C12_Witness ==
    /\ apiCall = "vpGetProfileDesc"
    /\ returned.desc = 2
    /\ profiles[2].props.profileName = params.profileName

----------------------------------------------------------------------------
(* Properties of vpCreateCapabilities *)

\* the entry points ValidateVulkanFunctions asks for (vkEnumerateInstanceVersion
\* may be missing)
RequiredFunctions == VpVulkanFunctions \ {"EnumerateInstanceVersion"}

PhysicalDeviceFunctions2 ==
    {"GetPhysicalDeviceFeatures2", "GetPhysicalDeviceProperties2",
     "GetPhysicalDeviceFormatProperties2", "GetPhysicalDeviceQueueFamilyProperties2"}

LoaderFunctions ==
    {"GetInstanceProcAddr", "GetDeviceProcAddr",
     "EnumerateInstanceExtensionProperties", "EnumerateDeviceExtensionProperties"}

\* the entry points the caller made available: all of them with the static
\* bit, and those of pVulkanFunctions
Imported ==
    (IF params.VP_PROFILE_CREATE_STATIC_BIT THEN VpVulkanFunctions ELSE {})
    \cup (IF params.pVulkanFunctions = <<>> THEN {} ELSE params.pVulkanFunctions[1])

(* C13 as stated: vpCreateCapabilities returns initialization-failed        *)
(* whenever a required entry point is still missing after the imports, and  *)
(* success only when every required entry point is present.                 *)
C13_MissingIsInitializationFailed ==
    apiCall = "vpCreateCapabilities" =>
        /\ ~(RequiredFunctions \subseteq Imported) =>
               returned.ret = "VK_ERROR_INITIALIZATION_FAILED"
        /\ returned.ret = "VK_SUCCESS" => RequiredFunctions \subseteq Imported

(* C13 amended: vpCreateCapabilities returns success exactly when every     *)
(* required entry point (all but vkEnumerateInstanceVersion) is present     *)
(* after the imports; otherwise it returns extension-not-present when the   *)
(* loader and enumeration entry points are present and one of the four      *)
(* vkGetPhysicalDevice*2 entry points is missing, and initialization-failed *)
(* in every other case.                                                     *)
C13_ValidationResult ==
    apiCall = "vpCreateCapabilities" =>
        /\ returned.ret = "VK_SUCCESS" <=> RequiredFunctions \subseteq Imported
        /\ returned.ret = "VK_ERROR_EXTENSION_NOT_PRESENT"
              <=> /\ LoaderFunctions \subseteq Imported
                  /\ ~(PhysicalDeviceFunctions2 \subseteq Imported)
        /\ returned.ret \in {"VK_SUCCESS", "VK_ERROR_EXTENSION_NOT_PRESENT",
                             "VK_ERROR_INITIALIZATION_FAILED"}

C13_Witness ==
    /\ apiCall = "vpCreateCapabilities"
    /\ returned.ret = "VK_ERROR_INITIALIZATION_FAILED"
    /\ PhysicalDeviceFunctions2 \cup LoaderFunctions \subseteq Imported
    /\ "CreateDevice" \notin Imported

----------------------------------------------------------------------------
(* Properties of the struct-chain utilities *)

\* the call in `apiCall` is vpExtractStructure
Extracted == apiCall = "vpExtractStructure"

\* the positions of the chain passed in whose link carries the tag passed in
Carriers == {i \in DOMAIN params.pFeatures : params.pFeatures[i].sType = params.structureType}

FirstCarrier == CHOOSE i \in Carriers : \A j \in Carriers : i <= j

HeadTag == params.pFeatures[1].sType

\* the chain passed in without its link at position i
Without(i) ==
    [k \in 1..(Len(params.pFeatures) - 1) |->
        IF k < i THEN params.pFeatures[k] ELSE params.pFeatures[k + 1]]

\* the first link with the tag is returned alone and is gone from the chain;
\* with an absent tag or the head tag nothing is returned and nothing changes
ExtractedFirstLink ==
    IF params.structureType # HeadTag /\ Carriers # {}
       THEN /\ returned.found = <<params.pFeatures[FirstCarrier]>>
            /\ returned.pFeatures = Without(FirstCarrier)
       ELSE /\ returned.found = <<>>
            /\ returned.pFeatures = params.pFeatures

----------------------------------------------------------------------------
(* Properties of device creation *)

\* vpCreateDevice went through its merging path and called vp.CreateDevice
DeviceCreated ==
    /\ apiCall = "vpCreateDevice"
    /\ params.pDevice # nullptr
    /\ returned.forwarded # <<>>

\* the VkDeviceCreateInfo of the caller and the one passed on
CallerInfo == params.pCreateInfo.pCreateInfo

Forwarded == returned.forwarded[1]

BufferOptOut == VP_DEVICE_CREATE_DISABLE_ROBUST_BUFFER_ACCESS_BIT \in params.pCreateInfo.flags

ImageOptOut == VP_DEVICE_CREATE_DISABLE_ROBUST_IMAGE_ACCESS_BIT \in params.pCreateInfo.flags

\* every variant of every capability set of the profile of that name
VariantsOf(profileName) ==
    LET d == Desc(profileName)
    IN  UNION {Range(d.pRequiredCapabilities[c]) : c \in DOMAIN d.pRequiredCapabilities}

\* the profiles the enabled full profiles stand for: each one and the profiles
\* it lists as required
EnabledFull ==
    UNION { {p.profileName} \cup {q.profileName : q \in Range(Desc(p.profileName).pRequiredProfiles)} :
               p \in Range(params.pCreateInfo.pEnabledFullProfiles) }

\* the variants an enabled full profile or an enabled block selects
EnabledVariants ==
    UNION {VariantsOf(n) : n \in EnabledFull}
    \cup UNION { {v \in VariantsOf(b.profiles.profileName) :
                     b.blockName = "" \/ v.blockName = b.blockName} :
                 b \in Range(params.pCreateInfo.pEnabledProfileBlocks) }

\* every variant of the enabled profiles and of the profiles of the enabled blocks
ProfileVariants ==
    UNION {VariantsOf(n) : n \in EnabledFull}
    \cup UNION {VariantsOf(b.profiles.profileName) :
                   b \in Range(params.pCreateInfo.pEnabledProfileBlocks)}

\* the member `name` of the struct `sType`, as <<sType, name>>
FeatureFlagNames ==
    { <<"PHYSICAL_DEVICE_FEATURES_2_KHR", "robustBufferAccess">>,
      <<"PHYSICAL_DEVICE_FEATURES_2_KHR", "shaderInt16">>,
      <<"PHYSICAL_DEVICE_TIMELINE_SEMAPHORE_FEATURES", "timelineSemaphore">>,
      <<"PHYSICAL_DEVICE_VULKAN_1_3_FEATURES", "robustImageAccess">>,
      <<"PHYSICAL_DEVICE_VULKAN_1_3_FEATURES", "synchronization2">>,
      <<"PHYSICAL_DEVICE_ROBUSTNESS_2_FEATURES_EXT", "robustBufferAccess2">>,
      <<"PHYSICAL_DEVICE_ROBUSTNESS_2_FEATURES_EXT", "robustImageAccess2">>,
      <<"PHYSICAL_DEVICE_IMAGE_ROBUSTNESS_FEATURES", "robustImageAccess">> }

BufferRobustness ==
    { <<"PHYSICAL_DEVICE_FEATURES_2_KHR", "robustBufferAccess">>,
      <<"PHYSICAL_DEVICE_ROBUSTNESS_2_FEATURES_EXT", "robustBufferAccess2">> }

ImageRobustness ==
    { <<"PHYSICAL_DEVICE_VULKAN_1_3_FEATURES", "robustImageAccess">>,
      <<"PHYSICAL_DEVICE_ROBUSTNESS_2_FEATURES_EXT", "robustImageAccess2">>,
      <<"PHYSICAL_DEVICE_IMAGE_ROBUSTNESS_FEATURES", "robustImageAccess">> }

\* the flag is true in some struct of that type of the chain
FlagSet(chain, f) ==
    \E i \in DOMAIN chain :
        /\ chain[i].sType = f[1]
        /\ \E k \in DOMAIN chain[i].flags :
              FeatureMembers(f[1])[k] = f[2] /\ chain[i].flags[k]

\* the caller asked for the flag, in pEnabledFeatures or in a struct of pNext
CallerRequested(f) ==
    \/ /\ f[1] = "PHYSICAL_DEVICE_FEATURES_2_KHR"
       /\ CallerInfo.pEnabledFeatures # <<>>
       /\ FlagSet(<<[sType |-> f[1], flags |-> CallerInfo.pEnabledFeatures[1]]>>, f)
    \/ FlagSet(CallerInfo.pNext, f)

\* the flags the filler of a variant sets
FillerSets(variant, f) ==
    variant.feature = "baseline" /\ f = <<"PHYSICAL_DEVICE_TIMELINE_SEMAPHORE_FEATURES", "timelineSemaphore">>

\* the opt-out bit of a robustness flag is set
OptedOut(f) ==
    \/ f \in BufferRobustness /\ BufferOptOut
    \/ f \in ImageRobustness /\ ImageOptOut

\* C14 as stated: in the chain vpCreateDevice passes on, every flag the caller
\* requested (pEnabledFeatures or a feature struct of pNext) and every flag the
\* filler of a selected variant sets is true, the one exception being
\* robustBufferAccess, which is false whenever the buffer opt-out bit is set.
C14_RequestedFlagsSet ==
    DeviceCreated =>
        /\ \A f \in FeatureFlagNames :
              /\ CallerRequested(f) \/ \E v \in EnabledVariants : FillerSets(v, f)
              /\ ~(f = <<"PHYSICAL_DEVICE_FEATURES_2_KHR", "robustBufferAccess">> /\ BufferOptOut)
              => FlagSet(Forwarded.pNext, f)
        /\ BufferOptOut =>
              ~FlagSet(Forwarded.pNext, <<"PHYSICAL_DEVICE_FEATURES_2_KHR", "robustBufferAccess">>)

\* C14, amended: every requested or filled flag is true in the chain passed on
\* unless it is a robustness flag whose opt-out bit is set (robustBufferAccess
\* and robustBufferAccess2 under the buffer bit; robustImageAccess2 and both
\* robustImageAccess under the image bit), and those are false.
C14_RequestedFlagsSetUnlessOptedOut ==
    DeviceCreated =>
        \A f \in FeatureFlagNames :
            /\ (CallerRequested(f) \/ \E v \in EnabledVariants : FillerSets(v, f))
               /\ ~OptedOut(f)
               => FlagSet(Forwarded.pNext, f)
            /\ OptedOut(f) => ~FlagSet(Forwarded.pNext, f)

\* the caller asks for synchronization2 and for robustBufferAccess with the
\* buffer opt-out, and brings a zeroed struct that the profile's filler fills
C14_Witness ==
    /\ DeviceCreated
    /\ BufferOptOut
    /\ CallerRequested(<<"PHYSICAL_DEVICE_FEATURES_2_KHR", "robustBufferAccess">>)
    /\ CallerRequested(<<"PHYSICAL_DEVICE_VULKAN_1_3_FEATURES", "synchronization2">>)
    /\ ~CallerRequested(<<"PHYSICAL_DEVICE_TIMELINE_SEMAPHORE_FEATURES", "timelineSemaphore">>)
    /\ \E i \in DOMAIN CallerInfo.pNext :
          CallerInfo.pNext[i].sType = "PHYSICAL_DEVICE_TIMELINE_SEMAPHORE_FEATURES"
    /\ \E v \in EnabledVariants : v.feature = "baseline"
    /\ FlagSet(Forwarded.pNext, <<"PHYSICAL_DEVICE_VULKAN_1_3_FEATURES", "synchronization2">>)
    /\ FlagSet(Forwarded.pNext, <<"PHYSICAL_DEVICE_TIMELINE_SEMAPHORE_FEATURES", "timelineSemaphore">>)
    /\ FlagSet(Forwarded.pNext, <<"PHYSICAL_DEVICE_FEATURES_2_KHR", "shaderInt16">>)
    /\ ~FlagSet(Forwarded.pNext, <<"PHYSICAL_DEVICE_FEATURES_2_KHR", "robustBufferAccess">>)

\* the value of a flag after the merge: the caller asked for it, or the filler
\* of some variant of the profiles involved sets it
Merged(f) == CallerRequested(f) \/ \E v \in ProfileVariants : FillerSets(v, f)

\* C15: in the chain passed on, a robustness flag whose opt-out bit is set is
\* false (buffer bit: robustBufferAccess, robustBufferAccess2; image bit:
\* robustImageAccess2, robustImageAccess of the image-robustness struct and of
\* the Vulkan 1.3 struct), and every other flag has its merged value.
C15_RobustnessOverrides ==
    DeviceCreated =>
        \A i \in DOMAIN Forwarded.pNext :
            \A k \in DOMAIN Forwarded.pNext[i].flags :
                LET f == <<Forwarded.pNext[i].sType, FeatureMembers(Forwarded.pNext[i].sType)[k]>>
                IN  Forwarded.pNext[i].flags[k] = (IF OptedOut(f) THEN FALSE ELSE Merged(f))

\* only the image opt-out is set; the caller asked for every flag of the
\* robustness2 struct and of the Vulkan 1.3 struct and for robustBufferAccess
C15_Witness ==
    /\ DeviceCreated
    /\ ImageOptOut
    /\ ~BufferOptOut
    /\ CallerRequested(<<"PHYSICAL_DEVICE_ROBUSTNESS_2_FEATURES_EXT", "robustImageAccess2">>)
    /\ CallerRequested(<<"PHYSICAL_DEVICE_VULKAN_1_3_FEATURES", "robustImageAccess">>)
    /\ CallerRequested(<<"PHYSICAL_DEVICE_FEATURES_2_KHR", "robustBufferAccess">>)
    /\ FlagSet(Forwarded.pNext, <<"PHYSICAL_DEVICE_FEATURES_2_KHR", "robustBufferAccess">>)
    /\ FlagSet(Forwarded.pNext, <<"PHYSICAL_DEVICE_ROBUSTNESS_2_FEATURES_EXT", "robustBufferAccess2">>)
    /\ FlagSet(Forwarded.pNext, <<"PHYSICAL_DEVICE_VULKAN_1_3_FEATURES", "synchronization2">>)
    /\ ~FlagSet(Forwarded.pNext, <<"PHYSICAL_DEVICE_ROBUSTNESS_2_FEATURES_EXT", "robustImageAccess2">>)
    /\ ~FlagSet(Forwarded.pNext, <<"PHYSICAL_DEVICE_VULKAN_1_3_FEATURES", "robustImageAccess">>)

----------------------------------------------------------------------------
(* Properties of the create-info that instance and device creation pass on *)

\* vpCreateInstance went through its merging path and called vp.CreateInstance
InstanceCreated ==
    /\ apiCall = "vpCreateInstance"
    /\ params.pInstance # nullptr
    /\ returned.forwarded # <<>>

\* the extension names the caller supplied, and what follows them in the list
\* passed on
Supplied == CallerInfo.ppEnabledExtensionNames

Added ==
    SubSeq(Forwarded.ppEnabledExtensionNames, Len(Supplied) + 1,
           Len(Forwarded.ppEnabledExtensionNames))

SuppliedFirst ==
    /\ Len(Forwarded.ppEnabledExtensionNames) >= Len(Supplied)
    /\ SubSeq(Forwarded.ppEnabledExtensionNames, 1, Len(Supplied)) = Supplied

NoRepeats(seq) == \A i, j \in DOMAIN seq : i # j => seq[i] # seq[j]

\* the extensions the selected variants require
RequiredInstanceExtensions == UNION {Range(v.pInstanceExtensions) : v \in EnabledVariants}

RequiredDeviceExtensions == UNION {Range(v.pDeviceExtensions) : v \in EnabledVariants}

ForwardedApiVersion == Forwarded.pApplicationInfo[1].apiVersion

Compatibility ==
    IF ForwardedApiVersion < VK_API_VERSION_1_1
          /\ VK_KHR_GET_PHYSICAL_DEVICE_PROPERTIES_2 \notin Range(Supplied) \cup RequiredInstanceExtensions
       THEN {VK_KHR_GET_PHYSICAL_DEVICE_PROPERTIES_2}
       ELSE {}

Occurrences(seq, name) == Cardinality({i \in DOMAIN seq : seq[i] = name})

Present(struct, chain) == \E i \in DOMAIN chain : chain[i].sType = struct.sType

\* C19: whatever the caller put into its create-info is in the create-info
\* passed on: the flags, the layers, the queue create infos of a device, the
\* extensions, and a struct for every struct of the pNext chain.
C19_CallerParametersKept ==
    DeviceCreated \/ InstanceCreated =>
        /\ Forwarded.flags = CallerInfo.flags
        /\ Forwarded.ppEnabledLayerNames = CallerInfo.ppEnabledLayerNames
        /\ DeviceCreated => Forwarded.pQueueCreateInfos = CallerInfo.pQueueCreateInfos
        /\ SuppliedFirst
        /\ \A i \in DOMAIN CallerInfo.pNext : Present(CallerInfo.pNext[i], Forwarded.pNext)

----------------------------------------------------------------------------
(* Properties of the FeaturesChain object *)

\* the structs reached from p by following pNext, at most `fuel` of them
RECURSIVE Follow(_, _, _)
Follow(heap, p, fuel) ==
    IF p = nullptr \/ fuel = 0 THEN <<>>
    ELSE <<p>> \o Follow(heap, heap[p], fuel - 1)

Structs == DOMAIN sTypeOf

\* the chain that starts at head, as the sequence of its structs
ChainFrom(heap, head) == Follow(heap, head, Cardinality(Structs) + 1)

MasterChain(heap) == ChainFrom(heap, "physicalDeviceFeatures2KHR")

RequiredChain(heap) == ChainFrom(heap, "requiredFeaturesChain")

\* a Build call on a FeaturesChain has returned
Built == apiCall = "FeaturesChain" /\ returned.builds > 0

\* the elements of seq in the order of their first occurrence
RECURSIVE FirstOccurrences(_)
FirstOccurrences(seq) ==
    IF seq = <<>> THEN <<>>
    ELSE LET init == FirstOccurrences(SubSeq(seq, 1, Len(seq) - 1))
             last == seq[Len(seq)]
         IN  IF last \in Range(init) THEN init ELSE Append(init, last)

\* the structs behind the head of the master chain as it was before the call
MasterBefore == Range(Tail(MasterChain(params.pNext)))

\* the master-chain structs whose tags the list names, one per tag, in the
\* order the tags are given
Named ==
    LET InMaster(t) == \E o \in MasterBefore : sTypeOf[o] = t
        tags == SelectSeq(FirstOccurrences(params.requiredList), InMaster)
    IN  [i \in DOMAIN tags |-> CHOOSE o \in MasterBefore : sTypeOf[o] = tags[i]]

\* C21: Build(tags) on a FeaturesChain as constructed leaves a required chain
\* that holds, behind its head, exactly the master-chain structs whose tags
\* appear in tags, one per tag and in the order the tags are given; with an
\* empty list or a list of head tags only there is nothing behind the head.
\* A later Build appends the structs it names to what the chain held before.
C21_BuildSelectsNamedStructs ==
    Built =>
        /\ Head(RequiredChain(returned.pNext)) = "requiredFeaturesChain"
        /\ Tail(RequiredChain(returned.pNext))
              = Tail(RequiredChain(params.pNext)) \o Named
        /\ returned.builds = 1 => Tail(RequiredChain(returned.pNext)) = Named
        /\ Range(params.requiredList) \subseteq {"PHYSICAL_DEVICE_FEATURES_2_KHR"}
              => RequiredChain(returned.pNext) = RequiredChain(params.pNext)

\* the first Build named two feature structs, against their order in the master
\* chain
C21_Witness ==
    /\ Built
    /\ returned.builds = 1
    /\ params.requiredList = <<"PHYSICAL_DEVICE_TIMELINE_SEMAPHORE_FEATURES",
                               "PHYSICAL_DEVICE_IMAGE_ROBUSTNESS_FEATURES">>
    /\ Tail(RequiredChain(returned.pNext))
          = <<"physicalDeviceTimelineSemaphoreFeatures",
              "physicalDeviceImageRobustnessFeatures">>

\* a FeaturesChain exists: its constructor has run, and maybe Build calls
Alive == apiCall = "FeaturesChain"

\* the capability structs: every struct of the object but the two heads
CapabilityStructs == Structs \ {"physicalDeviceFeatures2KHR", "requiredFeaturesChain"}

\* the chain ends in a null pNext without meeting a struct twice
NullTerminated(chain) ==
    /\ Len(chain) <= Cardinality(Structs)
    /\ \A i, j \in DOMAIN chain : chain[i] = chain[j] => i = j

\* C26: after the constructor and after any sequence of Build calls, every
\* capability struct is linked in exactly one of the master chain and the
\* required chain, never in both and never in neither; each chain is acyclic
\* and null-terminated and starts at its own fixed head.
C26_StructsInExactlyOneChain ==
    Alive =>
        LET master == MasterChain(returned.pNext)
            required == RequiredChain(returned.pNext)
        IN  /\ \A o \in CapabilityStructs :
                  (o \in Range(master)) # (o \in Range(required))
            /\ NullTerminated(master)
            /\ NullTerminated(required)
            /\ Head(master) = "physicalDeviceFeatures2KHR"
            /\ Head(required) = "requiredFeaturesChain"
            /\ "requiredFeaturesChain" \notin Range(master)
            /\ "physicalDeviceFeatures2KHR" \notin Range(required)

\* two Build calls have moved structs: some are in the required chain, from
\* both calls, and some are still in the master chain
C26_Witness ==
    /\ Built
    /\ returned.builds = 2
    /\ Len(RequiredChain(params.pNext)) = 2
    /\ Len(RequiredChain(returned.pNext)) = 4
    /\ Len(MasterChain(returned.pNext)) = 2


----------------------------------------------------------------------------
(* Properties of the merge of requested features *)

\* ApplyFeatures has merged requested chains into a required chain
Applied == apiCall = "ApplyFeatures"

\* C22: the flag merge of ApplyFeatures is idempotent and order-independent:
\* merging the same requested chain twice leaves what merging it once leaves,
\* and merging R1 then R2 leaves what merging R2 then R1 leaves.
C22_MergeIdempotentCommutative ==
    Applied =>
        /\ returned.twice = returned.once
        /\ returned.r1r2 = returned.r2r1

\* R1 and R2 carry the same struct type with different flags, and the merge has
\* set a flag of the required chain
C22_Witness ==
    /\ Applied
    /\ \E i \in DOMAIN params.R1, j \in DOMAIN params.R2 :
          /\ params.R1[i].sType = params.R2[j].sType
          /\ params.R1[i].flags # params.R2[j].flags
    /\ returned.once # returned.built
    /\ returned.r1r2 # returned.once


\* the feature struct types the variants of the profiles of the table list
ListedFeatureTypes ==
    UNION { UNION { UNION {Range(pFeatureStructTypes(v)) :
                              v \in Range(profiles[i].pRequiredCapabilities[c])} :
                       c \in DOMAIN profiles[i].pRequiredCapabilities } :
               i \in DOMAIN profiles }

\* C23: every feature struct type listed by a variant of a profile of the
\* table, and the head features type, has an entry in the size table of
\* FeaturesChain.
C23_ListedTypesHaveSize ==
    \A sType \in ListedFeatureTypes \cup {"PHYSICAL_DEVICE_FEATURES_2_KHR"} :
        structureSize(sType) > 0

\* a device was created for the profile of the source, whose variant lists a
\* feature struct type, and the struct of that type was sent on although the
\* caller chained none
C23_Witness ==
    /\ DeviceCreated
    /\ profiles = TableExample
    /\ ListedFeatureTypes = {"PHYSICAL_DEVICE_TIMELINE_SEMAPHORE_FEATURES"}
    /\ CallerInfo.pNext = <<>>
    /\ \E i \in DOMAIN Forwarded.pNext :
          /\ Forwarded.pNext[i].sType = "PHYSICAL_DEVICE_TIMELINE_SEMAPHORE_FEATURES"
          /\ Len(Forwarded.pNext[i].flags)
                = structureSize("PHYSICAL_DEVICE_TIMELINE_SEMAPHORE_FEATURES")


----------------------------------------------------------------------------
(* Properties of the support queries: capability queries and results *)

\* the entry points that query features, properties and format properties
CapabilityQueries ==
    {"vkGetPhysicalDeviceFeatures2", "vkGetPhysicalDeviceProperties2",
     "vkGetPhysicalDeviceFormatProperties2"}

\* the call was made for a variant: `who` is <<profile name, block name>>
ForVariant(call) == call.fn \in CapabilityQueries /\ Len(call.who) = 2

\* the variants a call for a variant was made for
VariantsCalledFor(call) ==
    {v \in VariantsOf(call.who[1]) : v.blockName = call.who[2]}

\* C24: in the device-level support query a feature, property or format
\* capability query is made for a variant only if all the device extensions
\* the variant requires were found; for a variant with a missing extension no
\* capability query is made.
C24_QueriesOnlyWithExtensions ==
    \A k \in DOMAIN calls :
        ForVariant(calls[k]) =>
            \A v \in VariantsCalledFor(calls[k]) : DeviceExtensionsOk(v)


\* the bits set in n
Bits(n) == {i \in 0..30 : (n \div (2 ^ i)) % 2 = 1}

\* every bit of `required` is set in `actual`
ContainsBits(actual, required) == Bits(required) \subseteq Bits(actual)

\* what the variant asks of the device: each numeric property reaches its
\* threshold, each bitmask holds the required bits, each required boolean is
\* true
ThresholdsMet(v, dev) ==
    /\ v.feature = "baseline" => dev.timelineSemaphore = TRUE
    /\ v.property = "baseline" =>
          /\ dev.maxStorageBufferRange >= 268435456
          /\ dev.maxMemoryAllocationSize >= 268435456
          /\ dev.maxTimelineSemaphoreValueDifference >= 16
          /\ dev.subgroupSize >= 4
          /\ ContainsBits(dev.supportedOperations,
                          VK_SUBGROUP_FEATURE_BALLOT_BIT + VK_SUBGROUP_FEATURE_ARITHMETIC_BIT)
          /\ ContainsBits(dev.supportedStages, VK_SHADER_STAGE_COMPUTE_BIT)
          /\ dev.maxPushDescriptors >= 2
    /\ \A f \in Range(v.pFormats) :
          ContainsBits(dev.optimalTilingFeatures, f.optimalTilingFeatures)

\* the variant's subgroup size, where it asks for one, is a power of two
SubgroupSizePowerOfTwo(v, dev) ==
    v.property = "baseline" => \E k \in 0..30 : dev.subgroupSize = 2 ^ k

\* the records of variants the device query has listed, supported or not
VariantRecords ==
    {b \in Range(supported_blocks) \cup Range(unsupported_blocks) : b.blockName # ""}

\* the variants a record stands for
RecordedVariants(b) ==
    {v \in VariantsOf(b.profiles.profileName) : v.blockName = b.blockName}

\* the comparators of the variant of the record accepted what the device reports
Accepted(b) == b \in Range(supported_blocks)

\* C25 as stated: the comparators of a variant accept exactly when each numeric
\* property is at least its threshold, each bitmask holds all required bits and
\* each required boolean is true; nothing else affects the result.
C25_ThresholdsOnly ==
    DevReported =>
        \A b \in VariantRecords : \A v \in RecordedVariants(b) :
            DeviceExtensionsOk(v) => (Accepted(b) <=> ThresholdsMet(v, env.dev))

\* C25: the comparators of a variant accept exactly when each numeric property
\* is at least its threshold, each bitmask holds all required bits, each
\* required boolean is true and, in addition, the subgroup size is a power of
\* two.
C25_ThresholdsAndPowerOfTwo ==
    DevReported =>
        \A b \in VariantRecords : \A v \in RecordedVariants(b) :
            DeviceExtensionsOk(v) =>
                (Accepted(b) <=> (/\ ThresholdsMet(v, env.dev)
                                  /\ SubgroupSizePowerOfTwo(v, env.dev)))

\* a device that meets every threshold was turned down for its subgroup size
C25_Witness ==
    /\ DevReported
    /\ \E b \in VariantRecords : \E v \in RecordedVariants(b) :
          /\ DeviceExtensionsOk(v)
          /\ ThresholdsMet(v, env.dev)
          /\ ~SubgroupSizePowerOfTwo(v, env.dev)
          /\ ~Accepted(b)


\* a support query has returned to its caller
QueryReturned == pc \in {"inst_done", "dev_done"}

\* the query returned an error code
ErrorReturned == QueryReturned /\ ret \notin {"VK_SUCCESS", "VK_INCOMPLETE"}

\* C28: whenever vpGetInstanceProfileVariantsSupport or
\* vpGetPhysicalDeviceProfileVariantsSupport returns, *pSupported has been
\* written; on every error return it has been set to false.
C28_SupportedWrittenOnReturn ==
    /\ QueryReturned => pSupported # "unwritten"
    /\ ErrorReturned => pSupported = "VK_FALSE"


\* the query went through to its end and reported the profile unsupported
CompletedUnsupported ==
    /\ InstReported \/ DevReported
    /\ ret \in {"VK_SUCCESS", "VK_INCOMPLETE"}
    /\ pSupported = "VK_FALSE"

\* C29: whenever a support query completes with supported = false, the block
\* list it reports holds at least one unsupported block, also when the only
\* failure is a version gate or the missing
\* VK_KHR_get_physical_device_properties2 instance extension.
C29_UnsupportedListNonEmpty ==
    CompletedUnsupported => ReportedList # <<>>


----------------------------------------------------------------------------
(* Properties of the loops of vpCreateDevice over the enabled blocks *)

\* C30: in vpCreateDevice the variants whose fillers are applied are the
\* variants whose extensions and struct types were gathered: when an enabled
\* block names a single variant, the filler of no other variant of that profile
\* changes the chain that is passed on. A flag of that chain is therefore only
\* set when the caller asked for it or the filler of a selected variant sets it.
C30_FillersOfSelectedVariantsOnly ==
    DeviceCreated =>
        \A f \in FeatureFlagNames :
            FlagSet(Forwarded.pNext, f) =>
                \/ CallerRequested(f)
                \/ \E v \in EnabledVariants : FillerSets(v, f)


\* vpCreateDevice went past its loops over the blocks to ApplyFeatures
Merging ==
    /\ apiCall = "vpCreateDevice"
    /\ params.pDevice # nullptr
    /\ returned.ret # "VK_ERROR_UNKNOWN"

\* C27: during vpCreateDevice, for every link of the caller's pNext chain that
\* ApplyFeatures visits, either the link's type has no registered size, so that
\* no flag is merged, or the required chain holds a struct of that type: the
\* merge never writes through a null output struct.
C27_MergeHasOutputStruct ==
    Merging =>
        /\ returned.ret # "fault"
        /\ \A i \in DOMAIN CallerInfo.pNext :
              \/ structureSize(CallerInfo.pNext[i].sType) = 0
              \/ vpGetStructure(Forwarded.pNext, CallerInfo.pNext[i].sType) # 0

\* no profile is enabled, and the caller's chain has a feature struct, whose
\* flags are merged, and a struct without a registered size
C27_Witness ==
    /\ Merging
    /\ params.pCreateInfo.pEnabledFullProfiles = <<>>
    /\ params.pCreateInfo.pEnabledProfileBlocks = <<>>
    /\ \E i, j \in DOMAIN CallerInfo.pNext :
          /\ structureSize(CallerInfo.pNext[i].sType) = 0
          /\ structureSize(CallerInfo.pNext[j].sType) > 0
          /\ vpGetStructure(Forwarded.pNext, CallerInfo.pNext[i].sType) = 0
          /\ vpGetStructure(Forwarded.pNext, CallerInfo.pNext[j].sType) # 0
          /\ Forwarded.pNext[vpGetStructure(Forwarded.pNext, CallerInfo.pNext[j].sType)].flags
                = CallerInfo.pNext[j].flags

====
